---- MODULE Spec2Model ----
(***************************************************************************)
(* Model of the content script of the "Secure Google Forms" extension      *)
(* (content.js): the page relevance filter, the brand classifier, the      *)
(* destination verifier, the form and link analyzers, the form guard       *)
(* (disable / enable submission), the warning banner with its two          *)
(* controls, the alert hand-off and the mutation-triggered re-scan.        *)
(*                                                                         *)
(* Strings are TLA+ strings handled character by character (Len, SubSeq,   *)
(* \o), so substring, prefix and regular-expression tests are computed as  *)
(* the script computes them.                                               *)
(***************************************************************************)
EXTENDS Integers, Sequences, FiniteSets, TLC

(***************************************************************************)
(* Bounds of the model.                                                    *)
(***************************************************************************)
NumForms == 2          \* form elements the page may hold
MaxPasses == 2         \* runs of analyzePageForPhishing in one behaviour; the page
                       \* changes its forms and anchors only while a run is left
MaxPending == 2        \* re-scan timers pending at the same time
MaxRemovals == 1       \* banner-removal timers pending for one banner
MaxAnchors == 1        \* anchors the page may hold
MaxMessages == 3       \* PHISHING_ALERT messages the background worker receives
MaxInFlight == 2       \* handlers of the worker that may be between two awaits
MaxPopupOps == 2       \* requests of the popup (delete, clear, settings)
MaxTicks == 1          \* milliseconds that pass on the worker's clock

Forms == 1..NumForms

\* The submit controls of a form, one for each branch of the selector
\* 'button[type="submit"], input[type="submit"]'.  In the page as loaded the
\* button is enabled and the input is disabled.
Controls == {"button", "input"}
InitiallyDisabled == [c \in Controls |-> c = "input"]

\* The controls of a form that submit it and that the selector does not
\* match: a button element without a type attribute, and an image input.
OtherSubmitControls == {"defaultButton", "image"}

(***************************************************************************)
(* String primitives of JavaScript used by the script.                     *)
(***************************************************************************)
CharAt(s, i) == SubSeq(s, i, i)

startsWith(s, p) == Len(s) >= Len(p) /\ SubSeq(s, 1, Len(p)) = p

includes(s, p) == \E i \in 0..(Len(s) - Len(p)) : SubSeq(s, i + 1, i + Len(p)) = p

\* index (1-based) of the first occurrence of p in s at or after position from, 0 if none
IndexFrom(s, p, from) ==
    LET hits == {i \in from..(Len(s) - Len(p) + 1) : SubSeq(s, i, i + Len(p) - 1) = p}
    IN  IF hits = {} THEN 0 ELSE CHOOSE i \in hits : \A j \in hits : i <= j

substring(s, from0, to0) ==
    LET t == IF to0 > Len(s) THEN Len(s) ELSE to0
    IN  SubSeq(s, from0 + 1, t)

UpperChars == <<"A","B","C","D","E","F","G","H","I","J","K","L","M",
                "N","O","P","Q","R","S","T","U","V","W","X","Y","Z">>
LowerChars == <<"a","b","c","d","e","f","g","h","i","j","k","l","m",
                "n","o","p","q","r","s","t","u","v","w","x","y","z">>

LowerChar(c) ==
    LET k == {i \in 1..26 : UpperChars[i] = c}
    IN  IF k = {} THEN c ELSE LowerChars[CHOOSE i \in k : TRUE]

RECURSIVE toLowerCase(_)
toLowerCase(s) ==
    IF Len(s) <= 1 THEN LowerChar(s)
    ELSE LET h == Len(s) \div 2
         IN  toLowerCase(SubSeq(s, 1, h)) \o toLowerCase(SubSeq(s, h + 1, Len(s)))

IsDigit(c) == c \in {"0","1","2","3","4","5","6","7","8","9"}

IsAlpha(c) == \E i \in 1..26 : c = UpperChars[i] \/ c = LowerChars[i]

RECURSIVE join(_, _)
join(list, sep) ==
    IF list = <<>> THEN ""
    ELSE IF Len(list) = 1 THEN list[1]
    ELSE list[1] \o sep \o join(Tail(list), sep)

(***************************************************************************)
(* SUSPICIOUS_PATTERNS: the three regular expressions.                     *)
(***************************************************************************)
\* \d{1,3} at position i of s: the set of positions right after a match
Digits13(s, i) ==
    {i + n : n \in {k \in 1..3 : \A j \in 0..(k - 1) : i + j <= Len(s) /\ IsDigit(CharAt(s, i + j))}}

\* \d{1,3}\. at position i: positions right after the dot
Digits13Dot(s, i) == {j + 1 : j \in {k \in Digits13(s, i) : CharAt(s, k) = "."}}

\* /^https?:\/\/\d{1,3}\.\d{1,3}\.\d{1,3}\.\d{1,3}/.test(s)
IP_ADDRESS(s) ==
    LET start == IF startsWith(s, "https://") THEN 9
                 ELSE IF startsWith(s, "http://") THEN 8 ELSE 0
    IN  /\ start > 0
        /\ \E a \in Digits13Dot(s, start) :
           \E b \in Digits13Dot(s, a) :
           \E c \in Digits13Dot(s, b) : Digits13(s, c) # {}

\* /xn--/.test(s)
PUNYCODE(s) == includes(s, "xn--")

\* /^mailto:/.test(s)
MAILTO(s) == startsWith(s, "mailto:")

(***************************************************************************)
(* The browser's URL parser, as far as the script depends on it:           *)
(* new URL(url) without a base throws unless url starts with a scheme;     *)
(* .hostname is the host of the authority, without userinfo and port, and  *)
(* is empty for URLs with an opaque path (mailto:, javascript:).           *)
(***************************************************************************)
SpecialSchemes == {"http", "https", "ftp", "ws", "wss", "file"}

IsSchemeChar(c) == IsAlpha(c) \/ IsDigit(c) \/ c \in {"+", "-", "."}

\* position of the colon that ends the scheme, 0 when s has no scheme
SchemeEnd(s) ==
    LET k == IndexFrom(s, ":", 1)
    IN  IF k > 1 /\ IsAlpha(CharAt(s, 1)) /\ \A i \in 2..(k - 1) : IsSchemeChar(CharAt(s, i))
        THEN k ELSE 0

RECURSIVE SkipSlashes(_)
SkipSlashes(s) == IF startsWith(s, "/") THEN SkipSlashes(SubSeq(s, 2, Len(s))) ELSE s

\* the part of s before the first of "/", "?", "#"
Authority(s) ==
    LET ends == {i \in 1..Len(s) : CharAt(s, i) \in {"/", "?", "#"}}
    IN  IF ends = {} THEN s ELSE SubSeq(s, 1, (CHOOSE i \in ends : \A j \in ends : i <= j) - 1)

\* authority without userinfo and port
HostOf(auth) ==
    LET ats == {i \in 1..Len(auth) : CharAt(auth, i) = "@"}
        h   == IF ats = {} THEN auth
               ELSE SubSeq(auth, (CHOOSE i \in ats : \A j \in ats : i >= j) + 1, Len(auth))
        c   == IndexFrom(h, ":", 1)
    IN  IF c = 0 THEN h ELSE SubSeq(h, 1, c - 1)

\* new URL(s): [ok |-> FALSE] when the constructor throws
ParseURL(s) ==
    LET k      == SchemeEnd(s)
        scheme == toLowerCase(SubSeq(s, 1, k - 1))
        rest   == SubSeq(s, k + 1, Len(s))
    IN  IF k = 0 THEN [ok |-> FALSE, scheme |-> "", hostname |-> ""]
        ELSE IF scheme \in SpecialSchemes
        THEN LET host == toLowerCase(HostOf(Authority(SkipSlashes(rest))))
             IN  IF host = "" /\ scheme # "file"
                 THEN [ok |-> FALSE, scheme |-> scheme, hostname |-> ""]
                 ELSE [ok |-> TRUE, scheme |-> scheme, hostname |-> host]
        ELSE IF startsWith(rest, "//")
        THEN [ok |-> TRUE, scheme |-> scheme,
              hostname |-> HostOf(Authority(SubSeq(rest, 3, Len(rest))))]
        ELSE [ok |-> TRUE, scheme |-> scheme, hostname |-> ""]

\* s cut before the first occurrence of c
Before(s, c) == LET k == IndexFrom(s, c, 1) IN IF k = 0 THEN s ELSE SubSeq(s, 1, k - 1)

\* scheme://authority of an absolute hierarchical URL
OriginOf(base) ==
    LET k    == SchemeEnd(base)
        rest == SubSeq(base, k + 1, Len(base))
        body == SkipSlashes(rest)
    IN  SubSeq(base, 1, k) \o "//" \o Authority(body)

\* base without query and fragment, cut after the last "/" of its path
DirOf(base) ==
    LET b      == Before(Before(base, "#"), "?")
        o      == OriginOf(base)
        slashes == {i \in (Len(o) + 1)..Len(b) : CharAt(b, i) = "/"}
    IN  IF slashes = {} THEN o \o "/"
        ELSE SubSeq(b, 1, CHOOSE i \in slashes : \A j \in slashes : i >= j)

\* the absolute URL an attribute value denotes in a document at base (the
\* value of link.href and of a non-empty form action).  Absolute values are
\* taken in their serialised form.
ResolveURL(attr, base) ==
    IF ParseURL(attr).ok THEN attr
    ELSE IF attr = "" THEN Before(base, "#")
    ELSE IF startsWith(attr, "#") THEN Before(base, "#") \o attr
    ELSE IF startsWith(attr, "?") THEN Before(Before(base, "#"), "?") \o attr
    ELSE IF startsWith(attr, "//") THEN SubSeq(base, 1, SchemeEnd(base)) \o attr
    ELSE IF startsWith(attr, "/") THEN OriginOf(base) \o attr
    ELSE DirOf(base) \o attr

\* form.action: the resolved action attribute; the document's URL when the
\* attribute is missing or empty
FormActionProperty(attr, base) == IF attr = "" THEN base ELSE ResolveURL(attr, base)

\* link.href
LinkHrefProperty(attr, base) == ResolveURL(attr, base)

(***************************************************************************)
(* The page.  A page context is a record                                    *)
(*   [url, title, body, alts, srcs, classes]                                *)
(* url is window.location.href, body the text of the page's own nodes, and  *)
(* alts / srcs / classes the values of the alt, src and class attributes    *)
(* found on the page's elements.                                            *)
(***************************************************************************)
EXTENSION_ID == "secure-google-forms"
GOOGLE_DOMAINS == <<"google.com", "docs.google.com", "forms.gle", "googleforms.com">>

\* document.querySelector('[attr*="token"]') over the attribute values present
AttrContains(values, token) == \E v \in values : includes(v, token)

\* the whitespace-separated tokens of a class attribute
RECURSIVE ClassTokens(_)
ClassTokens(v) ==
    IF v = "" THEN {}
    ELSE LET k == IndexFrom(v, " ", 1)
         IN  IF k = 0 THEN {v}
             ELSE ({SubSeq(v, 1, k - 1)} \ {""}) \cup ClassTokens(SubSeq(v, k + 1, Len(v)))

\* document.querySelector('.name')
HasClass(values, name) == \E v \in values : name \in ClassTokens(v)

\* a variant of shouldProcessPage that does not ask for a form
shouldProcessPageWithoutForm(page, hasForm) ==
    LET url   == toLowerCase(page.url)
        title == toLowerCase(page.title)
    IN  \/ includes(url, "google")
        \/ includes(url, "forms")
        \/ includes(url, "test_pages")
        \/ includes(title, "google form")
        \/ AttrContains(page.alts, "Google")

shouldProcessPage(page, hasForm) ==
    LET url   == toLowerCase(page.url)
        title == toLowerCase(page.title)
    IN  hasForm /\ ( \/ includes(url, "google")
                     \/ includes(url, "forms")
                     \/ includes(url, "test_pages")
                     \/ includes(title, "google form")
                     \/ AttrContains(page.alts, "Google") )

\* a variant of isGoogleDomain that tests the string itself when it is not a URL
isGoogleDomainLenient(url) ==
    LET u == ParseURL(url)
    IN  IF u.ok
        THEN LET hostname == toLowerCase(u.hostname)
             IN  \E i \in 1..Len(GOOGLE_DOMAINS) : includes(hostname, GOOGLE_DOMAINS[i])
        ELSE \E i \in 1..Len(GOOGLE_DOMAINS) : includes(toLowerCase(url), GOOGLE_DOMAINS[i])

\* a variant of isGoogleDomain that tests the whole URL, not its hostname
isGoogleDomainWholeUrl(url) ==
    LET u == ParseURL(url)
    IN  IF u.ok
        THEN \E i \in 1..Len(GOOGLE_DOMAINS) : includes(toLowerCase(url), GOOGLE_DOMAINS[i])
        ELSE FALSE

isGoogleDomain(url) ==
    LET u == ParseURL(url)
    IN  IF u.ok
        THEN LET hostname == toLowerCase(u.hostname)
             IN  \E i \in 1..Len(GOOGLE_DOMAINS) : includes(hostname, GOOGLE_DOMAINS[i])
        ELSE FALSE

\* bodyText is document.body.textContent: the page's own text preceded by
\* the text of the banners the script has inserted at the top of the body
looksLikeGoogleForm(page, bodyText) ==
    \/ includes(toLowerCase(page.title), "google form")
    \/ includes(toLowerCase(bodyText), "google form")
    \/ AttrContains(page.alts, "Google")
    \/ AttrContains(page.srcs, "google")
    \/ HasClass(page.classes, "google-logo")
    \/ AttrContains(page.classes, "google")

\* const formAction = form.action || form.getAttribute('action') || ''
FormActionOf(prop, actionAttr) == IF prop # "" THEN prop ELSE actionAttr

\* a variant of SuspiciousReasons whose first rule does not ask isGoogleDomain
SuspiciousReasonsAnyDomain(formAction, looks) ==
    IF formAction # ""
    THEN (IF looks
          THEN <<"Form appears to be Google Form but submits to non-Google domain: "
                 \o formAction>>
          ELSE <<>>)
         \o (IF IP_ADDRESS(formAction)
             THEN <<"Form submits to IP address: " \o formAction>> ELSE <<>>)
         \o (IF MAILTO(formAction)
             THEN <<"Form uses mailto action: " \o formAction>> ELSE <<>>)
         \o (IF PUNYCODE(formAction)
             THEN <<"Form action contains punycode: " \o formAction>> ELSE <<>>)
    ELSE <<>>

\* the reasons analyzeForm pushes, in order, for the action formAction
SuspiciousReasons(formAction, looks) ==
    IF formAction # ""
    THEN (IF looks /\ ~isGoogleDomain(formAction)
          THEN <<"Form appears to be Google Form but submits to non-Google domain: "
                 \o formAction>>
          ELSE <<>>)
         \o (IF IP_ADDRESS(formAction)
             THEN <<"Form submits to IP address: " \o formAction>> ELSE <<>>)
         \o (IF MAILTO(formAction)
             THEN <<"Form uses mailto action: " \o formAction>> ELSE <<>>)
         \o (IF PUNYCODE(formAction)
             THEN <<"Form action contains punycode: " \o formAction>> ELSE <<>>)
    ELSE <<>>

\* a variant of Analysis that calls every form suspicious, whatever its reasons
AnalysisAlwaysSuspicious(formAction, pageUrl, suspiciousReasons) ==
    [formAction   |-> formAction,
     pageUrl      |-> pageUrl,
     reasons      |-> suspiciousReasons,
     isSuspicious |-> TRUE]

\* the object analyzeForm returns
Analysis(formAction, pageUrl, suspiciousReasons) ==
    [formAction   |-> formAction,
     pageUrl      |-> pageUrl,
     reasons      |-> suspiciousReasons,
     isSuspicious |-> Len(suspiciousReasons) > 0]

AnalyzeAction(formAction, pageUrl, looks) ==
    Analysis(formAction, pageUrl, SuspiciousReasons(formAction, looks))

\* analyzeForm: actionAttr is the form's action attribute, looks the value
\* looksLikeGoogleForm() has when the form is analysed
analyzeForm(actionAttr, pageUrl, looks) ==
    AnalyzeAction(FormActionOf(FormActionProperty(actionAttr, pageUrl), actionAttr),
                  pageUrl, looks)

\* a variant of HrefFindings that stops at the first rule an anchor violates
HrefFindingsFirstRule(href, looks) ==
    IF IP_ADDRESS(href) THEN <<[url |-> href, reason |-> "IP address link"]>>
    ELSE IF PUNYCODE(href) THEN <<[url |-> href, reason |-> "Punycode link"]>>
    ELSE IF looks /\ ~isGoogleDomain(href) /\ ~startsWith(href, "#")
                  /\ ~startsWith(href, "javascript:")
    THEN <<[url |-> href, reason |-> "Non-Google link on Google-looking form"]>>
    ELSE <<>>

\* the findings analyzeSuspiciousLinks pushes for an anchor whose link.href is href
HrefFindings(href, looks) ==
    (IF IP_ADDRESS(href) THEN <<[url |-> href, reason |-> "IP address link"]>> ELSE <<>>)
    \o (IF PUNYCODE(href) THEN <<[url |-> href, reason |-> "Punycode link"]>> ELSE <<>>)
    \o (IF looks /\ ~isGoogleDomain(href) /\ ~startsWith(href, "#")
                 /\ ~startsWith(href, "javascript:")
        THEN <<[url |-> href, reason |-> "Non-Google link on Google-looking form"]>>
        ELSE <<>>)

\* the findings for one anchor with href attribute hrefAttr
LinkFindings(hrefAttr, pageUrl, looks) ==
    HrefFindings(LinkHrefProperty(hrefAttr, pageUrl), looks)

\* sanitizeText, the fallback without DOMPurify: div.textContent = text;
\* div.innerHTML escapes the three characters & < >
RECURSIVE sanitizeText(_)
sanitizeText(text) ==
    IF Len(text) <= 1
    THEN IF text = "&" THEN "&amp;" ELSE IF text = "<" THEN "&lt;"
         ELSE IF text = ">" THEN "&gt;" ELSE text
    ELSE LET h == Len(text) \div 2
         IN  sanitizeText(SubSeq(text, 1, h)) \o sanitizeText(SubSeq(text, h + 1, Len(text)))

(***************************************************************************)
(* Pages, form actions and link targets the behaviours are drawn from.     *)
(***************************************************************************)
\* a page that claims to be a Google Form and is served from another host
PhishPage == [url |-> "http://evil.example/forms/login", title |-> "Google Form Login",
              body |-> "Sign in to continue", alts |-> {}, srcs |-> {}, classes |-> {}]
\* a page with forms in its URL that does not look like a Google Form
PlainPage == [url |-> "http://shop.example/forms/order", title |-> "Order",
              body |-> "Your order", alts |-> {}, srcs |-> {}, classes |-> {}]
\* a page the relevance filter rejects
OtherPage == [url |-> "http://shop.example/cart", title |-> "Cart",
              body |-> "Your cart", alts |-> {}, srcs |-> {}, classes |-> {}]
\* a Google Form served by Google
GooglePage == [url |-> "https://docs.google.com/forms/d/e/abc/viewform",
               title |-> "Contact - Google Forms", body |-> "Contact us",
               alts |-> {}, srcs |-> {}, classes |-> {}]
Pages == {PhishPage, PlainPage, OtherPage, GooglePage}
PageNames == {"phish", "plain", "other", "google"}
PageOf(name) == IF name = "phish" THEN PhishPage
                ELSE IF name = "plain" THEN PlainPage
                ELSE IF name = "google" THEN GooglePage ELSE OtherPage

ActionAttrs == {"", "http://203.0.113.5/submit",
                "https://docs.google.com/forms/d/e/xyz/formResponse"}
HrefAttrs == {"#top", "http://198.51.100.9/track"}
\* the action attribute of a form element the page has not created yet
NoAction == CHOOSE a \in ActionAttrs : TRUE

(***************************************************************************)
(* Text of the banner.                                                     *)
(***************************************************************************)
WarningSign == "(!) "
DefaultReason == "Suspicious form detected. Your submission has been blocked for safety."
IgnoreLabel == "Ignore & Submit Anyway"
EnabledLabel == "Submission Enabled"
EnabledMessage == "(ok) Submission enabled - proceed with caution."
DismissLabel == "Dismiss"

\* messageDiv.textContent of a new banner
BannerMessage(reasons) ==
    LET joined     == join(reasons, ", ")
        reasonText == IF joined # "" THEN joined ELSE DefaultReason
    IN  WarningSign \o sanitizeText(reasonText)

\* textContent of a banner element
BannerText(b) == b.message \o b.ignoreLabel \o DismissLabel

\* document.body.textContent: banners are prepended, so the newest comes first
RECURSIVE BannersText(_)
BannersText(bs) ==
    IF bs = <<>> THEN ""
    ELSE BannersText(Tail(bs)) \o (IF Head(bs).inDOM THEN BannerText(Head(bs)) ELSE "")

(***************************************************************************)
(* Tables of the pure functions over the pools above.  Each entry is the   *)
(* function's value, computed once; the pass reads the tables through its  *)
(* parameter T.                                                            *)
(***************************************************************************)
\* the function [x \in S |-> F(x)] with every value computed (merging it
\* with the empty function makes TLC build the whole function, and build it
\* once, before it explores the states)
Tabulate(S, F(_)) == [x \in S |-> F(x)] @@ <<>>

\* what the pass uses of analyzeForm's result: the analysis and the banner
\* message made of its reasons
FormEntry(analysis) == [analysis |-> analysis, message |-> BannerMessage(analysis.reasons)]

ShouldProcessTable ==
    Tabulate(PageNames \X BOOLEAN, LAMBDA k : shouldProcessPage(PageOf(k[1]), k[2]))

FormTable ==
    Tabulate(PageNames \X ActionAttrs \X BOOLEAN,
             LAMBDA k : FormEntry(analyzeForm(k[2], PageOf(k[1]).url, k[3])))

FindingsTable ==
    Tabulate(PageNames \X HrefAttrs \X BOOLEAN,
             LAMBDA k : LinkFindings(k[2], PageOf(k[1]).url, k[3]))

\* the (message, label) pairs a banner can show
BannerParts(formTable) ==
    {<<EnabledMessage, EnabledLabel>>}
        \cup {<<formTable[k].message, IgnoreLabel>> : k \in DOMAIN formTable}

\* looksLikeGoogleForm() of page p whose body text is preceded by prefix
LooksWith(p, prefix) == looksLikeGoogleForm(p, prefix \o p.body)

\* looksLikeGoogleForm() while no banner is in the document
LooksNoneTable == Tabulate(PageNames, LAMBDA n : LooksWith(PageOf(n), ""))

\* looksLikeGoogleForm() while one banner is in the document
LooksOneTable(parts) ==
    Tabulate(PageNames \X parts,
             LAMBDA k : LooksWith(PageOf(k[1]), k[2][1] \o k[2][2] \o DismissLabel))

TablesWith(formTable) ==
    [should    |-> ShouldProcessTable,
     form      |-> formTable,
     findings  |-> FindingsTable,
     looksNone |-> LooksNoneTable,
     looksOne  |-> LooksOneTable(BannerParts(formTable))]

Tables == TablesWith(FormTable)

\* looksLikeGoogleForm() on page n while the banners bs have been created
Looks(n, bs, T) ==
    LET live == {i \in 1..Len(bs) : bs[i].inDOM}
    IN  IF live = {} THEN T.looksNone[n]
        ELSE IF Cardinality(live) = 1
                /\ \A i \in live : <<n, <<bs[i].message, bs[i].ignoreLabel>>>> \in DOMAIN T.looksOne
        THEN LET b == bs[CHOOSE i \in live : TRUE]
             IN  T.looksOne[<<n, <<b.message, b.ignoreLabel>>>>]
        ELSE LooksWith(PageOf(n), BannersText(bs))

(***************************************************************************)
(* Single calls of the pure functions.  A probe is the input of one call,  *)
(* written as the parts it is made of:                                     *)
(*   fn     the function called                                            *)
(*   kind   how the string is written: "absolute" (scheme, userinfo, host, *)
(*          port, tail), "mailto", "javascript", "fragment", "relative",   *)
(*          "empty", or "raw" (the string is tail)                         *)
(*   page   the name of the page the element is on, looks the value of     *)
(*          looksLikeGoogleForm() at the call                              *)
(* The probes of the functions that take a document or an alert have the   *)
(* parts of that input as their fields.                                    *)
(***************************************************************************)
NoOut == [done |-> FALSE, value |-> FALSE]

NoProbe == [fn |-> "none", kind |-> "empty", scheme |-> "", user |-> "", host |-> "",
            port |-> "", tail |-> "", page |-> "other", looks |-> FALSE]

\* the string a probe denotes
ProbeText(p) ==
    IF p.kind = "absolute" THEN p.scheme \o p.user \o p.host \o p.port \o p.tail
    ELSE IF p.kind = "mailto" THEN "mailto:" \o p.user \o p.host
    ELSE IF p.kind = "empty" THEN ""
    ELSE p.tail

(***************************************************************************)
(* State.                                                                  *)
(***************************************************************************)
VARIABLES
    page,            \* the name of the page context (fixed while the page lives)
    domForms,        \* the form elements in the document, in document order
    formAttr,        \* formAttr[f]: the action attribute of form f
    ctl,             \* ctl[f][c]: disabled property and dataset.originalDisabled
                     \* of the c-th submit button of form f
    anchors,         \* href attributes of the a[href] elements, in document order
    processedForms,  \* the WeakSet processedForms
    hasBanner,       \* hasBanner[f]: the property __sf_hasBanner of form f
    listener,        \* listener[f]: preventSubmission is a submit listener of f
    banners,         \* every banner element created so far, in creation order
    pendingRescans,  \* timers set by the mutation observer and not yet fired
    loaded,          \* the initial analysis has run
    passes,          \* history: runs of analyzePageForPhishing so far
    sent,            \* history: messages handed to sendMessage by the last run
    analysed,        \* history: forms passed through analyzeForm by the last run
    clean,           \* history: those of them whose reasons list came back empty
    alertCount,      \* history: alertCount[f]: alerts sent for form f
    linkAlerts,      \* history: alerts sent for links alone
    blockCount,      \* history: blockCount[f]: calls of disableFormSubmission on f
    before,          \* history: before[f][c]: disabled just before f was blocked
    overridden,      \* history: the user has clicked the override control for f
    initialForms,    \* history: forms in the document when the initial analysis ran
    domChanged,      \* history: the page has changed since the last run
    otherCtl,        \* otherCtl[f][c]: disabled property of the submit-capable
                     \* control c of form f that the selector does not match
    channel,         \* chrome.runtime as the script finds it: "ok", "throws"
                     \* (sendMessage throws), "lastError" (the callback finds
                     \* lastError set) or "absent" (no chrome.runtime)
    probe,           \* the input of a single call of one of the pure functions
    out,             \* [done, value]: the call has returned, and what it returned
    worker           \* the background worker, a record of
                     \*   settings: chrome.storage.local['extension_settings']
                     \*   stored: chrome.storage.local['phishing_alerts'], a list
                     \*     of [id, seq]: id as storeAlert sets it, seq (history)
                     \*     the number of the alert in the order of arrival
                     \*   clock: Date.now()
                     \*   inflight: the handlers that wait for a storage call
                     \*   badge: the number shown as badge text (0: no text)
                     \*   notifications: notifications created so far
                     \*   nextSeq (history): the number the next alert will get
                     \*   written (history): seq of every alert ever written
                     \*   removed (history): seq of the alerts a delete or a
                     \*     clear took out, or the cap of storeAlert cut off
                     \*   popupOps (history): requests of the popup so far

domVars == <<page, domForms, formAttr, anchors>>
scriptVars == <<ctl, processedForms, hasBanner, listener, banners>>
histVars == <<sent, analysed, clean, alertCount, linkAlerts, blockCount, before, overridden,
              initialForms>>
callVars == <<probe, out>>
workerVars == <<worker>>
pageVars == <<page, domForms, formAttr, ctl, anchors, processedForms, hasBanner, listener,
              banners, pendingRescans, loaded, passes, sent, analysed, clean, alertCount,
              linkAlerts, blockCount, before, overridden, initialForms, domChanged, channel,
              otherCtl, probe, out>>
vars == <<pageVars, workerVars>>

BoolString(b) == IF b THEN "true" ELSE "false"

\* document.querySelector('.sf-warning-banner')
BannerInDom(bs) == \E i \in 1..Len(bs) : bs[i].inDOM

\* the state the script's functions read and write, as one record
Cur ==
    [ctl |-> ctl, processedForms |-> processedForms, hasBanner |-> hasBanner,
     listener |-> listener, banners |-> banners, sent |-> sent, analysed |-> analysed,
     clean |-> clean,
     alertCount |-> alertCount, linkAlerts |-> linkAlerts, blockCount |-> blockCount,
     before |-> before, found |-> FALSE]

Commit(st) ==
    /\ ctl' = st.ctl
    /\ processedForms' = st.processedForms
    /\ hasBanner' = st.hasBanner
    /\ listener' = st.listener
    /\ banners' = st.banners
    /\ sent' = st.sent
    /\ analysed' = st.analysed
    /\ clean' = st.clean
    /\ alertCount' = st.alertCount
    /\ linkAlerts' = st.linkAlerts
    /\ blockCount' = st.blockCount
    /\ before' = st.before

(***************************************************************************)
(* The form guard.                                                         *)
(***************************************************************************)
\* button.disabled = true; button.dataset.originalDisabled = button.disabled;
\* formElement.addEventListener('submit', preventSubmission)
disableFormSubmission(f, st) ==
    LET button(c) ==
            LET disabled1 == TRUE
            IN  [disabled |-> disabled1, originalDisabled |-> BoolString(disabled1)]
    IN  [st EXCEPT !.ctl[f] = [c \in Controls |-> button(c)],
                   !.listener[f] = TRUE,
                   !.blockCount[f] = @ + 1,
                   !.before[f] = [c \in Controls |-> st.ctl[f][c].disabled]]

\* button.disabled = button.dataset.originalDisabled === 'true';
\* formElement.removeEventListener('submit', preventSubmission)
enableFormSubmission(f, st) ==
    [st EXCEPT !.ctl[f] = [c \in Controls |->
                              [st.ctl[f][c] EXCEPT !.disabled = (st.ctl[f][c].originalDisabled = "true")]],
               !.listener[f] = FALSE]

(***************************************************************************)
(* The banner.                                                             *)
(***************************************************************************)
\* a variant of createFormWarningBanner whose early return looks at the form's
\* own __sf_hasBanner only, not at the document
createFormWarningBannerPerForm(f, message, st) ==
    IF st.hasBanner[f]
    THEN st
    ELSE LET banner == [form |-> f, inDOM |-> TRUE, message |-> message,
                        ignoreLabel |-> IgnoreLabel, ignoreDisabled |-> FALSE,
                        removals |-> 0]
         IN  disableFormSubmission(f,
                 [st EXCEPT !.hasBanner[f] = TRUE, !.banners = Append(@, banner)])

\* message is the text computed from analysis.reasons (BannerMessage)
createFormWarningBanner(f, message, st) ==
    IF st.hasBanner[f] \/ BannerInDom(st.banners)
    THEN st
    ELSE LET banner == [form |-> f, inDOM |-> TRUE, message |-> message,
                        ignoreLabel |-> IgnoreLabel, ignoreDisabled |-> FALSE,
                        removals |-> 0]
         IN  disableFormSubmission(f,
                 [st EXCEPT !.hasBanner[f] = TRUE, !.banners = Append(@, banner)])

(***************************************************************************)
(* The alert hand-off.                                                     *)
(***************************************************************************)
\* Array.prototype.slice(from0, to0)
slice(list, from0, to0) ==
    SubSeq(list, from0 + 1, IF to0 > Len(list) THEN Len(list) ELSE to0)

\* a variant of CapLinks that leaves the reason of a finding as long as it is
RECURSIVE CapLinksUrlOnly(_)
CapLinksUrlOnly(links) ==
    IF links = <<>> THEN <<>>
    ELSE <<[url    |-> substring(Head(links).url, 0, 200),
            reason |-> Head(links).reason]>> \o CapLinksUrlOnly(Tail(links))

RECURSIVE CapLinks(_)
CapLinks(links) ==
    IF links = <<>> THEN <<>>
    ELSE <<[url    |-> substring(Head(links).url, 0, 200),
            reason |-> substring(Head(links).reason, 0, 100)]>> \o CapLinks(Tail(links))

\* a variant of sendAlert that reports the first reason only
sendAlertFirstReason(analysis, suspiciousLinks, st) ==
    LET sanitizedData ==
            [type            |-> "PHISHING_ALERT",
             reason          |-> substring(Head(analysis.reasons), 0, 500),
             formAction      |-> substring(analysis.formAction, 0, 200),
             pageUrl         |-> substring(analysis.pageUrl, 0, 200),
             suspiciousLinks |-> CapLinks(slice(suspiciousLinks, 0, 10))]
    IN  [st EXCEPT !.sent = Append(@, sanitizedData)]

\* the message sendAlert builds (its timestamp is left out) and hands to
\* chrome.runtime.sendMessage
sendAlert(analysis, suspiciousLinks, st) ==
    LET sanitizedData ==
            [type            |-> "PHISHING_ALERT",
             reason          |-> substring(join(analysis.reasons, ", "), 0, 500),
             formAction      |-> substring(analysis.formAction, 0, 200),
             pageUrl         |-> substring(analysis.pageUrl, 0, 200),
             suspiciousLinks |-> CapLinks(slice(suspiciousLinks, 0, 10))]
    IN  IF channel = "absent"
        THEN st
        ELSE \* sendMessage is called; what it throws is caught (lines 315-326),
             \* and lastError is only logged by the callback
             [st EXCEPT !.sent = Append(@, sanitizedData)]

(***************************************************************************)
(* The analysis pass.                                                      *)
(***************************************************************************)
RECURSIVE analyzeSuspiciousLinks(_, _, _)
analyzeSuspiciousLinks(links, looks, T) ==
    IF links = <<>> THEN <<>>
    ELSE T.findings[<<page, Head(links), looks>>]
             \o analyzeSuspiciousLinks(Tail(links), looks, T)

RECURSIVE ReasonsOf(_)
ReasonsOf(links) ==
    IF links = <<>> THEN <<>> ELSE <<Head(links).reason>> \o ReasonsOf(Tail(links))

\* the branch taken for a form whose analysis is suspicious: entry holds the
\* analysis and the banner message of its reasons
HandleSuspicious(form, entry, suspiciousLinks, st) ==
    LET s1 == createFormWarningBanner(form, entry.message, [st EXCEPT !.found = TRUE])
        s2 == sendAlert(entry.analysis, suspiciousLinks, s1)
    IN  [s2 EXCEPT !.alertCount[form] = @ + Len(s2.sent) - Len(s1.sent),
                   !.processedForms = @ \cup {form}]

\* a variant of ProcessForm without the processedForms.has(form) return
ProcessFormAgain(form, suspiciousLinks, st, T) ==
    LET entry == T.form[<<page, formAttr[form], Looks(page, st.banners, T)>>]
        st0   == [st EXCEPT !.analysed = @ \cup {form},
                            !.clean = IF Len(entry.analysis.reasons) = 0
                                      THEN @ \cup {form} ELSE @]
    IN  IF entry.analysis.isSuspicious
        THEN HandleSuspicious(form, entry, suspiciousLinks, st0)
        ELSE st0

\* the body of forms.forEach for one form
ProcessForm(form, suspiciousLinks, st, T) ==
    IF form \in st.processedForms
    THEN st
    ELSE LET entry == T.form[<<page, formAttr[form], Looks(page, st.banners, T)>>]
             st0   == [st EXCEPT !.analysed = @ \cup {form},
                                 !.clean = IF Len(entry.analysis.reasons) = 0
                                           THEN @ \cup {form} ELSE @]
         IN  IF entry.analysis.isSuspicious
             THEN HandleSuspicious(form, entry, suspiciousLinks, st0)
             ELSE st0

RECURSIVE ForEachForm(_, _, _, _)
ForEachForm(forms, suspiciousLinks, st, T) ==
    IF forms = <<>> THEN st
    ELSE ForEachForm(Tail(forms), suspiciousLinks,
                     ProcessForm(Head(forms), suspiciousLinks, st, T), T)

\* a variant of LinkAlert that reports the page's URL as the form action
LinkAlertWithPageAction(suspiciousLinks, st) ==
    LET analysis == [formAction   |-> PageOf(page).url,
                     pageUrl      |-> PageOf(page).url,
                     reasons      |-> <<"Suspicious links found: "
                                         \o join(ReasonsOf(suspiciousLinks), ", ")>>,
                     isSuspicious |-> TRUE]
        s2 == sendAlert(analysis, suspiciousLinks, st)
    IN  [s2 EXCEPT !.linkAlerts = @ + Len(s2.sent) - Len(st.sent)]

\* the alert for suspicious links on a page without a suspicious form
LinkAlert(suspiciousLinks, st) ==
    LET analysis == [formAction   |-> "",
                     pageUrl      |-> PageOf(page).url,
                     reasons      |-> <<"Suspicious links found: "
                                         \o join(ReasonsOf(suspiciousLinks), ", ")>>,
                     isSuspicious |-> TRUE]
        s2 == sendAlert(analysis, suspiciousLinks, st)
    IN  [s2 EXCEPT !.linkAlerts = @ + Len(s2.sent) - Len(st.sent)]

\* what follows forms.forEach
AfterForms(suspiciousLinks, s1, T) ==
    IF ~s1.found /\ Len(suspiciousLinks) > 0 /\ Looks(page, s1.banners, T)
    THEN LinkAlert(suspiciousLinks, s1)
    ELSE s1

\* what follows const suspiciousLinks = analyzeSuspiciousLinks()
WithLinks(suspiciousLinks, st, T) ==
    AfterForms(suspiciousLinks,
               ForEachForm(domForms, suspiciousLinks, [st EXCEPT !.found = FALSE], T), T)

\* a variant of analyzePageForPhishing without the shouldProcessPage() return
analyzePageForPhishingUnfiltered(st, T) ==
    WithLinks(analyzeSuspiciousLinks(anchors, Looks(page, st.banners, T), T), st, T)

analyzePageForPhishing(st, T) ==
    IF ~T.should[<<page, domForms # <<>>>>]
    THEN st
    ELSE WithLinks(analyzeSuspiciousLinks(anchors, Looks(page, st.banners, T), T), st, T)

\* one run of analyzePageForPhishing
RunAnalysis ==
    /\ passes < MaxPasses
    /\ passes' = passes + 1
    /\ Commit(analyzePageForPhishing([Cur EXCEPT !.sent = <<>>, !.analysed = {}, !.clean = {}], Tables))
    /\ domChanged' = FALSE
    /\ UNCHANGED <<domVars, overridden, callVars, channel, otherCtl, workerVars>>

(***************************************************************************)
(* Entry points.                                                           *)
(***************************************************************************)
\* the initial analysis (at once, or on DOMContentLoaded)
InitialAnalysis ==
    /\ ~loaded
    /\ loaded' = TRUE
    /\ initialForms' = Len(domForms)
    /\ RunAnalysis
    /\ UNCHANGED pendingRescans

\* a re-scan timer set by the mutation observer fires
RescanTimer ==
    /\ pendingRescans > 0
    /\ pendingRescans' = pendingRescans - 1
    /\ RunAnalysis
    /\ UNCHANGED <<loaded, initialForms>>

\* the page adds a form (the forms are named in the order they are added, and
\* each is added at the end of the document); the mutation observer sees a
\* batch with a form in it and sets a re-scan timer
AddForm(a) ==
    /\ passes < MaxPasses
    /\ Len(domForms) < NumForms
    /\ pendingRescans < MaxPending
    /\ LET f == Len(domForms) + 1
       IN  /\ domForms' = Append(domForms, f)
           /\ formAttr' = [formAttr EXCEPT ![f] = a]
    /\ pendingRescans' = pendingRescans + 1
    /\ domChanged' = TRUE
    /\ UNCHANGED <<page, anchors, scriptVars, loaded, passes, histVars, callVars, channel, otherCtl, workerVars>>

\* a variant of AddAnchor whose observer sets a timer for any added element
AddAnchorWithRescan(h) ==
    /\ passes < MaxPasses
    /\ Len(anchors) < MaxAnchors
    /\ pendingRescans < MaxPending
    /\ anchors' = Append(anchors, h)
    /\ pendingRescans' = pendingRescans + 1
    /\ domChanged' = TRUE
    /\ UNCHANGED <<page, domForms, formAttr, scriptVars, loaded, passes,
                   histVars, callVars, channel, otherCtl, workerVars>>

\* the page adds an anchor; the observer's batch holds no form: no timer
AddAnchor(h) ==
    /\ passes < MaxPasses
    /\ Len(anchors) < MaxAnchors
    /\ anchors' = Append(anchors, h)
    /\ domChanged' = TRUE
    /\ UNCHANGED <<page, domForms, formAttr, scriptVars, pendingRescans, loaded, passes,
                   histVars, callVars, channel, otherCtl, workerVars>>

\* a variant of ClickIgnore whose handler leaves the control enabled
ClickIgnoreStaysEnabled(b) ==
    /\ banners[b].inDOM
    /\ ~banners[b].ignoreDisabled
    /\ LET st == enableFormSubmission(banners[b].form, Cur)
       IN  /\ ctl' = st.ctl
           /\ listener' = st.listener
    /\ banners' = [banners EXCEPT ![b].message = EnabledMessage,
                                  ![b].ignoreLabel = EnabledLabel]
    /\ overridden' = [overridden EXCEPT ![banners[b].form] = TRUE]
    /\ domChanged' = TRUE
    /\ UNCHANGED <<domVars, processedForms, hasBanner, pendingRescans, loaded, passes,
                   sent, analysed, clean, alertCount, linkAlerts, blockCount, before,
                   initialForms, callVars, channel, otherCtl, workerVars>>

\* the user clicks "Ignore & Submit Anyway" on banner b (a click on a
\* disabled button dispatches no event)
ClickIgnore(b) ==
    /\ banners[b].inDOM
    /\ ~banners[b].ignoreDisabled
    /\ LET st == enableFormSubmission(banners[b].form, Cur)
       IN  /\ ctl' = st.ctl
           /\ listener' = st.listener
    /\ banners' = [banners EXCEPT ![b].message = EnabledMessage,
                                  ![b].ignoreDisabled = TRUE,
                                  ![b].ignoreLabel = EnabledLabel]
    /\ overridden' = [overridden EXCEPT ![banners[b].form] = TRUE]
    /\ domChanged' = TRUE
    /\ UNCHANGED <<domVars, processedForms, hasBanner, pendingRescans, loaded, passes,
                   sent, analysed, clean, alertCount, linkAlerts, blockCount, before,
                   initialForms, callVars, channel, otherCtl, workerVars>>

\* a variant of ClickDismiss whose handler also lifts the guard of the form
ClickDismissLiftsGuard(b) ==
    /\ banners[b].inDOM
    /\ banners[b].removals < MaxRemovals
    /\ banners' = [banners EXCEPT ![b].removals = @ + 1]
    /\ LET st == enableFormSubmission(banners[b].form, Cur)
       IN  /\ ctl' = st.ctl
           /\ listener' = st.listener
    /\ UNCHANGED <<domVars, processedForms, hasBanner, pendingRescans,
                   loaded, passes, histVars, domChanged, callVars, channel, otherCtl, workerVars>>

\* the user clicks "Dismiss" on banner b: a removal timer is set
ClickDismiss(b) ==
    /\ banners[b].inDOM
    /\ banners[b].removals < MaxRemovals
    /\ banners' = [banners EXCEPT ![b].removals = @ + 1]
    /\ UNCHANGED <<domVars, ctl, processedForms, hasBanner, listener, pendingRescans,
                   loaded, passes, histVars, domChanged, callVars, channel, otherCtl, workerVars>>

\* a variant of RemoveBanner that also lifts the guard of the banner's form
RemoveBannerAndEnable(b) ==
    /\ banners[b].removals > 0
    /\ banners' = [banners EXCEPT ![b].removals = @ - 1, ![b].inDOM = FALSE]
    /\ hasBanner' = [hasBanner EXCEPT ![banners[b].form] = FALSE]
    /\ LET st == enableFormSubmission(banners[b].form, Cur)
       IN  /\ ctl' = st.ctl
           /\ listener' = st.listener
    /\ domChanged' = TRUE
    /\ UNCHANGED <<domVars, processedForms, pendingRescans, loaded, passes, histVars,
                   callVars, channel, otherCtl, workerVars>>

\* a removal timer of banner b fires: banner.remove(); __sf_hasBanner = false
RemoveBanner(b) ==
    /\ banners[b].removals > 0
    /\ banners' = [banners EXCEPT ![b].removals = @ - 1, ![b].inDOM = FALSE]
    /\ hasBanner' = [hasBanner EXCEPT ![banners[b].form] = FALSE]
    /\ domChanged' = TRUE
    /\ UNCHANGED <<domVars, ctl, processedForms, listener, pendingRescans, loaded,
                   passes, histVars, callVars, channel, otherCtl, workerVars>>

(***************************************************************************)
(* Specification.                                                          *)
(***************************************************************************)
\* the background worker after chrome.runtime.onInstalled, with nothing stored
WorkerInstalled ==
    worker = [settings |-> [enabled |-> TRUE, notificationsEnabled |-> TRUE],
              stored |-> <<>>, clock |-> 0, inflight |-> {}, badge |-> 0,
              notifications |-> 0, nextSeq |-> 1, written |-> {}, removed |-> {},
              popupOps |-> 0]

\* the script's own state when it is injected
ScriptInit ==
    /\ ctl = [f \in Forms |-> [c \in Controls |->
                 [disabled |-> InitiallyDisabled[c], originalDisabled |-> "unset"]]]
    /\ processedForms = {}
    /\ hasBanner = [f \in Forms |-> FALSE]
    /\ listener = [f \in Forms |-> FALSE]
    /\ banners = <<>>
    /\ pendingRescans = 0
    /\ loaded = FALSE
    /\ passes = 0
    /\ sent = <<>>
    /\ analysed = {}
    /\ clean = {}
    /\ alertCount = [f \in Forms |-> 0]
    /\ linkAlerts = 0
    /\ blockCount = [f \in Forms |-> 0]
    /\ before = [f \in Forms |-> [c \in Controls |-> FALSE]]
    /\ overridden = [f \in Forms |-> FALSE]
    /\ initialForms = 0
    /\ domChanged = FALSE
    /\ otherCtl = [f \in Forms |-> [c \in OtherSubmitControls |-> FALSE]]
    /\ WorkerInstalled

Init ==
    /\ page \in PageNames
    /\ \E n \in 0..NumForms :
          /\ domForms = [i \in 1..n |-> i]
          /\ formAttr \in [Forms -> ActionAttrs]
          /\ \A f \in Forms : f > n => formAttr[f] = NoAction
    /\ anchors \in {<<>>} \cup {<<h>> : h \in HrefAttrs}
    /\ ScriptInit
    /\ channel = "ok"
    /\ probe = NoProbe
    /\ out = NoOut

Next ==
    \/ InitialAnalysis
    \/ RescanTimer
    \/ \E a \in ActionAttrs : AddForm(a)
    \/ \E h \in HrefAttrs : AddAnchor(h)
    \/ \E b \in 1..Len(banners) : ClickIgnore(b)
    \/ \E b \in 1..Len(banners) : ClickDismiss(b)
    \/ \E b \in 1..Len(banners) : RemoveBanner(b)

Spec == Init /\ [][Next]_vars

\* the page sets the action attribute of a form in the document: an attribute
\* mutation, of which the observer (childList, subtree) is not told
ChangeAction(f, a) ==
    /\ passes < MaxPasses
    /\ f <= Len(domForms)
    /\ a # formAttr[f]
    /\ formAttr' = [formAttr EXCEPT ![f] = a]
    /\ domChanged' = TRUE
    /\ UNCHANGED <<page, domForms, anchors, scriptVars, pendingRescans, loaded, passes,
                   histVars, callVars, channel, otherCtl, workerVars>>

\* the page script on a page that also rewrites the actions of its forms
NextChange ==
    \/ Next
    \/ \E f \in Forms : \E a \in ActionAttrs : ChangeAction(f, a)

SpecChange == Init /\ [][NextChange]_vars

(***************************************************************************)
(* Specification of single calls of the pure functions: the input is drawn *)
(* by the initial state, the one step is the call.                         *)
(***************************************************************************)
ProbeSchemes == {"http://", "HTTPS://", "ftp://", "custom://"}
ProbeUsers == {"", "docs.google.com@"}
ProbeHosts == {"google.com", "docs.google.com", "forms.gle", "googleforms.com",
               "DOCS.Google.COM", "google.com.evil.example", "mygoogle.community",
               "evil.example", "gogle.com", "203.0.113.5", "xn--ggle-0nda.example"}
ProbePorts == {"", ":8080"}
ProbeTails == {"", "/", "/google.com/forms", "?next=forms.gle", "#docs.google.com"}

\* strings new URL() rejects: empty, relative, protocol-relative, no host
NotUrls == {"", "docs.google.com", "docs.google.com/forms/d/e/1", "/forms/d/e/1",
            "//docs.google.com/forms", "forms.gle/abc", "google.com/forms?x=1",
            "not a url google.com", "http://", "https:///", "://google.com"}

\* the inputs of isGoogleDomain
DomainProbes ==
    {[fn |-> "isGoogleDomain", kind |-> "absolute", scheme |-> sc, user |-> u, host |-> h,
      port |-> po, tail |-> t, page |-> "other", looks |-> FALSE] :
        sc \in ProbeSchemes, u \in ProbeUsers, h \in ProbeHosts, po \in ProbePorts,
        t \in ProbeTails}
    \cup {[fn |-> "isGoogleDomain", kind |-> "mailto", scheme |-> "", user |-> "user@",
           host |-> h, port |-> "", tail |-> "", page |-> "other", looks |-> FALSE] :
             h \in ProbeHosts}
    \cup {[fn |-> "isGoogleDomain", kind |-> "raw", scheme |-> "", user |-> "",
           host |-> "", port |-> "", tail |-> t, page |-> "other", looks |-> FALSE] :
             t \in NotUrls}

\* hosts and tails of form actions and link targets
TargetHosts == {"203.0.113.5", "docs.google.com", "evil.example", "xn--ggle-0nda.example"}
TargetTails == {"/submit", "/xn--p1ai/post"}
ProbePages == {"phish", "google"}

\* the action attributes analyzeForm is called on, on each page
FormProbes ==
    {[fn |-> "analyzeForm", kind |-> "absolute", scheme |-> sc, user |-> "", host |-> h,
      port |-> "", tail |-> t, page |-> pg, looks |-> l] :
        sc \in {"http://", "https://", "ftp://"}, h \in TargetHosts, t \in TargetTails,
        pg \in ProbePages, l \in BOOLEAN}
    \cup {[fn |-> "analyzeForm", kind |-> "mailto", scheme |-> "", user |-> "collect@",
           host |-> h, port |-> "", tail |-> "", page |-> pg, looks |-> l] :
             h \in TargetHosts, pg \in ProbePages, l \in BOOLEAN}
    \cup {[fn |-> "analyzeForm", kind |-> k, scheme |-> "", user |-> "", host |-> "",
           port |-> "", tail |-> (IF k = "empty" THEN "" ELSE "submit.php"), page |-> pg,
           looks |-> l] :
             k \in {"empty", "relative"}, pg \in ProbePages, l \in BOOLEAN}

\* the href attributes of the anchors the link analyzer visits, on each page
LinkProbes ==
    {[fn |-> "links", kind |-> "absolute", scheme |-> sc, user |-> "", host |-> h,
      port |-> "", tail |-> t, page |-> pg, looks |-> l] :
        sc \in {"http://", "https://", "ftp://"}, h \in TargetHosts, t \in TargetTails,
        pg \in ProbePages, l \in BOOLEAN}
    \cup {[fn |-> "links", kind |-> "mailto", scheme |-> "", user |-> "info@",
           host |-> h, port |-> "", tail |-> "", page |-> pg, looks |-> l] :
             h \in TargetHosts, pg \in ProbePages, l \in BOOLEAN}
    \cup {[fn |-> "links", kind |-> k[1], scheme |-> "", user |-> "", host |-> "",
           port |-> "", tail |-> k[2], page |-> pg, looks |-> l] :
             k \in {<<"fragment", "#top">>, <<"fragment", "#xn--sec">>,
                    <<"javascript", "javascript:void(0)">>},
             pg \in ProbePages, l \in BOOLEAN}

\* A document the relevance filter and the brand classifier are called on is
\* written as its parts: the host and the path of its URL, its title, its
\* body text, and the alt, src and class attribute values of its elements.
DocHosts == {"shop.example", "docs.google.com"}
DocPaths == {"/cart", "/forms/order", "/Forms/x", "/search?q=google",
             "/test_pages/phishing_form.html"}
DocTitles == {"Cart", "Google Form Login", "GOOGLE FORMS"}
DocBodies == {"Your cart", "Sign in to this Google Form"}
DocAlts == {{}, {"Company logo"}, {"Google logo"}, {"google logo"}}
DocSrcs == {{}, {"/img/logo.png"}, {"/img/google.png"}, {"/img/Google.png"}}
DocClasses == {{}, {"header"}, {"hdr google-logo"}, {"Google-header"}}

\* the page context of a document probe
DocOf(p) == [url |-> "http://" \o p.host \o p.path, title |-> p.title, body |-> p.body,
             alts |-> p.alts, srcs |-> p.srcs, classes |-> p.classes]

\* the documents shouldProcessPage is called on
FilterProbes ==
    {[fn |-> "shouldProcessPage", host |-> h, path |-> pa, title |-> t, body |-> "Your cart",
      alts |-> al, srcs |-> {}, classes |-> {}, hasForm |-> hf] :
        h \in DocHosts, pa \in DocPaths, t \in DocTitles, al \in DocAlts, hf \in BOOLEAN}

\* the documents looksLikeGoogleForm is called on
ClassifierProbes ==
    {[fn |-> "looksLikeGoogleForm", host |-> "shop.example", path |-> "/cart", title |-> t,
      body |-> b, alts |-> al, srcs |-> sr, classes |-> cl, hasForm |-> TRUE] :
        t \in DocTitles, b \in DocBodies, al \in DocAlts, sr \in DocSrcs,
        cl \in DocClasses}

\* the string of n copies of the one-character string c
RECURSIVE Repeat(_, _)
Repeat(c, n) ==
    IF n <= 0 THEN ""
    ELSE IF n = 1 THEN c
    ELSE Repeat(c, n \div 2) \o Repeat(c, n - n \div 2)

\* An alert sendAlert is called on is written as the sizes of its parts:
\* reasons entries of reasonLen characters each, a form action and a page URL
\* of the given lengths, and links findings whose url and reason have the
\* given lengths.  The url of the i-th finding carries the letter of i.
AlertProbes ==
    {[fn |-> "sendAlert", reasons |-> r[1], reasonLen |-> r[2], actionLen |-> a,
      pageLen |-> pl, links |-> n, urlLen |-> u[1], linkReasonLen |-> u[2]] :
        r \in {<<1, 40>>, <<2, 249>>, <<2, 250>>, <<3, 300>>},
        a \in {0, 199, 200, 201, 260},
        pl \in {30, 201},
        n \in {0, 9, 10, 11, 12},
        u \in {<<50, 20>>, <<200, 100>>, <<201, 101>>, <<230, 140>>}}

Letters == <<"a", "b", "c", "d", "e", "f", "g", "h", "i", "j", "k", "l">>

\* the arguments of the call
AlertAnalysis(p) ==
    [formAction   |-> Repeat("x", p.actionLen),
     pageUrl      |-> Repeat("p", p.pageLen),
     reasons      |-> [i \in 1..p.reasons |-> Repeat(Letters[i], p.reasonLen)],
     isSuspicious |-> TRUE]
AlertLinks(p) ==
    [i \in 1..p.links |-> [url    |-> Letters[i] \o Repeat("u", p.urlLen - 1),
                            reason |-> Repeat("r", p.linkReasonLen)]]

Probes == DomainProbes \cup FormProbes \cup LinkProbes \cup FilterProbes
              \cup ClassifierProbes \cup AlertProbes

\* the rest of the state does not take part in a single call
Idle == UNCHANGED <<domVars, scriptVars, pendingRescans, loaded, passes, histVars,
                    domChanged, channel, otherCtl, probe, workerVars>>

CallIsGoogleDomain ==
    /\ probe.fn = "isGoogleDomain"
    /\ ~out.done
    /\ out' = [done |-> TRUE, value |-> isGoogleDomain(ProbeText(probe))]
    /\ Idle

CallAnalyzeForm ==
    /\ probe.fn = "analyzeForm"
    /\ ~out.done
    /\ out' = [done |-> TRUE,
               value |-> analyzeForm(ProbeText(probe), PageOf(probe.page).url, probe.looks)]
    /\ Idle

\* the findings of analyzeSuspiciousLinks for one anchor
CallLinkFindings ==
    /\ probe.fn = "links"
    /\ ~out.done
    /\ out' = [done |-> TRUE,
               value |-> LinkFindings(ProbeText(probe), PageOf(probe.page).url, probe.looks)]
    /\ Idle

CallShouldProcessPage ==
    /\ probe.fn = "shouldProcessPage"
    /\ ~out.done
    /\ out' = [done |-> TRUE, value |-> shouldProcessPage(DocOf(probe), probe.hasForm)]
    /\ Idle

CallLooksLikeGoogleForm ==
    /\ probe.fn = "looksLikeGoogleForm"
    /\ ~out.done
    /\ out' = [done |-> TRUE, value |-> looksLikeGoogleForm(DocOf(probe), probe.body)]
    /\ Idle

\* the message sendAlert hands to chrome.runtime.sendMessage
CallSendAlert ==
    /\ probe.fn = "sendAlert"
    /\ ~out.done
    /\ out' = [done  |-> TRUE,
               value |-> sendAlert(AlertAnalysis(probe), AlertLinks(probe), Cur).sent]
    /\ Idle

InitCall ==
    /\ page = "other"
    /\ domForms = <<>>
    /\ formAttr = [f \in Forms |-> NoAction]
    /\ anchors = <<>>
    /\ ScriptInit
    /\ channel = "ok"
    /\ probe \in Probes
    /\ out = NoOut

NextCall ==
    \/ CallIsGoogleDomain
    \/ CallAnalyzeForm
    \/ CallLinkFindings
    \/ CallShouldProcessPage
    \/ CallLooksLikeGoogleForm
    \/ CallSendAlert

SpecCall == InitCall /\ [][NextCall]_vars

(***************************************************************************)
(* Specification of one pass over a page whose forms and anchors are given *)
(* in some order.  The actions of the forms include a mailto: address with *)
(* a space in it, which the URL parser keeps as written.                   *)
(***************************************************************************)
OrderActionAttrs == ActionAttrs \cup {"mailto:google form@evil.example"}

OrderFormTable ==
    Tabulate(PageNames \X OrderActionAttrs \X BOOLEAN,
             LAMBDA k : FormEntry(analyzeForm(k[2], PageOf(k[1]).url, k[3])))

OrderTables == TablesWith(OrderFormTable)

\* the forms of the page, visited in the order given by forms
PassOver(forms, T) ==
    ForEachForm(forms, analyzeSuspiciousLinks(anchors, Looks(page, banners, T), T),
                [Cur EXCEPT !.sent = <<>>, !.analysed = {}, !.clean = {}, !.found = FALSE],
                T)

\* the initial analysis of the page
OrderedPass ==
    /\ ~loaded
    /\ loaded' = TRUE
    /\ initialForms' = Len(domForms)
    /\ passes < MaxPasses
    /\ passes' = passes + 1
    /\ Commit(analyzePageForPhishing(
                  [Cur EXCEPT !.sent = <<>>, !.analysed = {}, !.clean = {}], OrderTables))
    /\ domChanged' = FALSE
    /\ UNCHANGED <<domVars, overridden, callVars, channel, otherCtl, workerVars, pendingRescans>>

InitOrder ==
    /\ page \in PageNames
    /\ \E n \in 0..NumForms :
          /\ domForms = [i \in 1..n |-> i]
          /\ formAttr \in [Forms -> OrderActionAttrs]
          /\ \A f \in Forms : f > n => formAttr[f] = NoAction
    /\ anchors \in {<<>>} \cup {<<h>> : h \in HrefAttrs}
                       \cup {<<h, g>> : h \in HrefAttrs, g \in HrefAttrs}
    /\ ScriptInit
    /\ channel = "ok"
    /\ probe = NoProbe
    /\ out = NoOut

NextOrder == OrderedPass

SpecOrder == InitOrder /\ [][NextOrder]_vars

(***************************************************************************)
(* Specification of the script on a page where the alert hand-off fails:   *)
(* the initial analysis, forms added by the page and the re-scans.         *)
(***************************************************************************)
FailingChannels == {"throws", "lastError", "absent"}

InitFail ==
    /\ page \in {"phish", "plain"}
    /\ \E n \in 0..NumForms :
          /\ domForms = [i \in 1..n |-> i]
          /\ formAttr \in [Forms -> ActionAttrs]
          /\ \A f \in Forms : f > n => formAttr[f] = NoAction
    /\ anchors \in {<<>>} \cup {<<h>> : h \in HrefAttrs}
    /\ ScriptInit
    /\ channel \in FailingChannels
    /\ probe = NoProbe
    /\ out = NoOut

NextFail ==
    \/ InitialAnalysis
    \/ RescanTimer
    \/ \E a \in ActionAttrs : AddForm(a)

SpecFail == InitFail /\ [][NextFail]_vars

(***************************************************************************)
(* The background worker (background.js).  Every handler is a chain of     *)
(* storage calls with an await between them; a step of the model runs a    *)
(* handler from one await to the next, and the steps of different handlers *)
(* interleave.  A storage call takes effect when it is issued.  Of an      *)
(* alert the model keeps the id; what the content script put into the      *)
(* message is copied into the entry unchanged and left out here.  The      *)
(* badge and the notification that follow the write of storeAlert are part *)
(* of the step that writes.                                                *)
(***************************************************************************)
\* alerts.slice(0, 50)
StoredCap == 50

\* k alerts stored before, one per millisecond, most recent first
OldAlerts(k) == [i \in 1..k |-> [id |-> k + 1 - i, seq |-> k + 1 - i]]

\* how many alerts the storage may hold when the behaviour begins
InitialCounts == {0, StoredCap - 1, StoredCap}

AllSettings == [enabled : BOOLEAN, notificationsEnabled : BOOLEAN]

\* a handler of a PHISHING_ALERT before its first storage call for the alerts
StoreHandler(w) ==
    [op |-> "store", pc |-> "get", seq |-> w.nextSeq,
     notify |-> w.settings.notificationsEnabled, snapshot |-> <<>>, target |-> 0]

\* a variant of ReceiveAlert that does not look at settings.enabled
ReceiveAlertAlways(limit) ==
    /\ worker.nextSeq - StoredCap <= MaxMessages
    /\ Cardinality(worker.inflight) < limit
    /\ worker' = [worker EXCEPT !.nextSeq = @ + 1,
                                !.inflight = @ \cup {StoreHandler(worker)}]
    /\ UNCHANGED pageVars

\* onMessage with a PHISHING_ALERT: handlePhishingAlert reads the settings and
\* returns when the extension is disabled
ReceiveAlert(limit) ==
    /\ worker.nextSeq - StoredCap <= MaxMessages
    /\ Cardinality(worker.inflight) < limit
    /\ worker' = [worker EXCEPT !.nextSeq = @ + 1,
                                !.inflight = IF ~worker.settings.enabled
                                             THEN @
                                             ELSE @ \cup {StoreHandler(worker)}]
    /\ UNCHANGED pageVars

\* storeAlert: chrome.storage.local.get([ALERTS_STORAGE_KEY])
StoreGet(h) ==
    /\ h.op = "store"
    /\ h.pc = "get"
    /\ worker' = [worker EXCEPT !.inflight = (@ \ {h}) \cup
                                    {[h EXCEPT !.pc = "set", !.snapshot = worker.stored]}]
    /\ UNCHANGED pageVars

\* a variant of StoreSet that puts the new alert behind the stored ones
StoreSetAtEnd(h) ==
    /\ h.op = "store"
    /\ h.pc = "set"
    /\ LET newAlert      == [id |-> worker.clock, seq |-> h.seq]
           alerts        == Append(h.snapshot, newAlert)
           trimmedAlerts == slice(alerts, 0, 50)
       IN  worker' = [worker EXCEPT
                        !.stored = trimmedAlerts,
                        !.badge = Len(trimmedAlerts),
                        !.removed = @ \cup {alerts[i].seq :
                                               i \in (Len(trimmedAlerts) + 1)..Len(alerts)},
                        !.written = @ \cup {h.seq},
                        !.notifications = IF h.notify THEN @ + 1 ELSE @,
                        !.inflight = @ \ {h}]
    /\ UNCHANGED pageVars

\* storeAlert from newAlert to the badge, and showNotification
StoreSet(h) ==
    /\ h.op = "store"
    /\ h.pc = "set"
    /\ LET newAlert      == [id |-> worker.clock, seq |-> h.seq]
           alerts        == <<newAlert>> \o h.snapshot
           trimmedAlerts == slice(alerts, 0, 50)
       IN  worker' = [worker EXCEPT
                        !.stored = trimmedAlerts,
                        !.badge = Len(trimmedAlerts),
                        !.removed = @ \cup {alerts[i].seq :
                                               i \in (Len(trimmedAlerts) + 1)..Len(alerts)},
                        !.written = @ \cup {h.seq},
                        !.notifications = IF h.notify THEN @ + 1 ELSE @,
                        !.inflight = @ \ {h}]
    /\ UNCHANGED pageVars

\* the ids the popup asks to delete: those of the newest and of the oldest
\* entry, and of every entry made in this behaviour
DeleteTargets ==
    {worker.stored[i].id :
        i \in {j \in 1..Len(worker.stored) :
                  j = 1 \/ j = Len(worker.stored) \/ worker.stored[j].seq > StoredCap}}

\* DELETE_ALERT: deleteAlert up to its chrome.storage.local.get
DeleteGet(alertId, limit) ==
    /\ worker.popupOps < MaxPopupOps
    /\ Cardinality(worker.inflight) < limit
    /\ worker' = [worker EXCEPT
                     !.popupOps = @ + 1,
                     !.inflight = @ \cup {[op |-> "delete", pc |-> "set",
                                           seq |-> worker.popupOps, notify |-> FALSE,
                                           snapshot |-> worker.stored,
                                           target |-> alertId]}]
    /\ UNCHANGED pageVars

\* deleteAlert from alerts.filter to the end; the badge follows storage
DeleteSet(h) ==
    /\ h.op = "delete"
    /\ h.pc = "set"
    /\ LET filteredAlerts == SelectSeq(h.snapshot, LAMBDA alert : alert.id # h.target)
       IN  worker' = [worker EXCEPT
                        !.stored = filteredAlerts,
                        !.badge = Len(filteredAlerts),
                        !.removed = @ \cup {worker.stored[i].seq :
                                               i \in {j \in 1..Len(worker.stored) :
                                                         worker.stored[j].id = h.target}},
                        !.inflight = @ \ {h}]
    /\ UNCHANGED pageVars

\* CLEAR_ALERTS: clearAllAlerts
ClearAllAlerts(limit) ==
    /\ worker.popupOps < MaxPopupOps
    /\ Cardinality(worker.inflight) < limit
    /\ worker' = [worker EXCEPT
                     !.popupOps = @ + 1,
                     !.stored = <<>>,
                     !.badge = 0,
                     !.removed = @ \cup {worker.stored[i].seq : i \in 1..Len(worker.stored)}]
    /\ UNCHANGED pageVars

\* UPDATE_SETTINGS: updateSettings
UpdateSettings(newSettings, limit) ==
    /\ worker.popupOps < MaxPopupOps
    /\ Cardinality(worker.inflight) < limit
    /\ newSettings # worker.settings
    /\ worker' = [worker EXCEPT !.popupOps = @ + 1, !.settings = newSettings]
    /\ UNCHANGED pageVars

\* a millisecond passes
Tick ==
    /\ worker.clock < StoredCap + 1 + MaxTicks
    /\ worker' = [worker EXCEPT !.clock = @ + 1]
    /\ UNCHANGED pageVars

\* the worker with some alerts stored before, and no page script
InitWorker ==
    /\ page = "other"
    /\ domForms = <<>>
    /\ formAttr = [f \in Forms |-> NoAction]
    /\ anchors = <<>>
    /\ ctl = [f \in Forms |-> [c \in Controls |->
                 [disabled |-> InitiallyDisabled[c], originalDisabled |-> "unset"]]]
    /\ processedForms = {}
    /\ hasBanner = [f \in Forms |-> FALSE]
    /\ listener = [f \in Forms |-> FALSE]
    /\ banners = <<>>
    /\ pendingRescans = 0
    /\ loaded = FALSE
    /\ passes = 0
    /\ sent = <<>>
    /\ analysed = {}
    /\ clean = {}
    /\ alertCount = [f \in Forms |-> 0]
    /\ linkAlerts = 0
    /\ blockCount = [f \in Forms |-> 0]
    /\ before = [f \in Forms |-> [c \in Controls |-> FALSE]]
    /\ overridden = [f \in Forms |-> FALSE]
    /\ initialForms = 0
    /\ domChanged = FALSE
    /\ otherCtl = [f \in Forms |-> [c \in OtherSubmitControls |-> FALSE]]
    /\ channel = "ok"
    /\ probe = NoProbe
    /\ out = NoOut
    /\ worker \in {[settings |-> s, stored |-> OldAlerts(k), clock |-> StoredCap + 1,
                     inflight |-> {}, badge |-> k, notifications |-> 0,
                     nextSeq |-> StoredCap + 1, written |-> 1..k, removed |-> {},
                     popupOps |-> 0] : s \in AllSettings, k \in InitialCounts}

\* the steps of the worker with at most limit handlers between two awaits
WorkerStep(limit) ==
    \/ ReceiveAlert(limit)
    \/ \E h \in worker.inflight : StoreGet(h)
    \/ \E h \in worker.inflight : StoreSet(h)
    \/ \E alertId \in DeleteTargets : DeleteGet(alertId, limit)
    \/ \E h \in worker.inflight : DeleteSet(h)
    \/ ClearAllAlerts(limit)
    \/ \E newSettings \in AllSettings : UpdateSettings(newSettings, limit)
    \/ Tick

\* the worker's handlers interleave at their awaits
NextWorker == WorkerStep(MaxInFlight)

SpecWorker == InitWorker /\ [][NextWorker]_vars

\* the requests reach the worker one at a time: each handler has finished
\* before the next request arrives
NextWorkerSeq == WorkerStep(1)

SpecWorkerSeq == InitWorker /\ [][NextWorkerSeq]_vars

(***************************************************************************)
(* Properties.                                                             *)
(***************************************************************************)
\* the banner elements in the document
LiveBanners == {i \in 1..Len(banners) : banners[i].inDOM}

\* every submit control of form f is disabled
AllDisabled(f) == \A c \in Controls : ctl[f][c].disabled

\* the step is one run of analyzePageForPhishing
IsPass == passes' = passes + 1

\* C1: in every reachable state, every form that was flagged suspicious and
\* marked processed and that the user has not overridden has all its submit
\* controls disabled and the submit-preventing listener attached.
C1_ProcessedFormsAreBlocked ==
    \A f \in processedForms : ~overridden[f] => (listener[f] /\ AllDisabled(f))

\* C2: when a pass finds a suspicious form while a banner is already in the
\* document, no second banner is created, but the form is still blocked (its
\* controls disabled, the submit listener attached) and its own alert is sent.
C2_SecondFormStillBlocked ==
    [][\A f \in Forms :
          (IsPass /\ f \in processedForms' \ processedForms /\ BannerInDom(banners))
          => /\ banners' = banners
             /\ listener'[f]
             /\ \A c \in Controls : ctl'[f][c].disabled
             /\ alertCount'[f] = alertCount[f] + 1]_vars

\* C3: block followed by override is a round trip on the submit controls: after
\* the user's click on "Ignore & Submit Anyway" each control's disabled property
\* is what it was just before the form was blocked, so a control that was
\* enabled before is enabled again.
C3_OverrideRestoresControls ==
    \A f \in Forms :
        (overridden[f] /\ blockCount[f] > 0)
        => \A c \in Controls : ctl[f][c].disabled = before[f][c]

\* C4: at most one warning banner element is in the document in every reachable
\* state, whatever the number of suspicious forms and the order of passes,
\* override clicks, dismiss clicks and delayed removals.
C4_AtMostOneBanner == Cardinality(LiveBanners) <= 1

\* a second banner has been created after the first was dismissed and removed,
\* on a page with more than one flagged form
C4_Witness ==
    /\ Len(banners) >= 2
    /\ ~banners[1].inDOM
    /\ banners[Len(banners)].inDOM
    /\ Cardinality(processedForms) >= 2

\* C5: detection is at most once per form: a form marked processed is not
\* passed through analyzeForm by a later pass, it has been blocked exactly
\* once, and exactly one alert has been sent for it.
C5_DetectionOncePerForm ==
    [][\A f \in Forms :
          /\ (IsPass /\ f \in processedForms) => f \notin analysed'
          /\ f \in processedForms' => (blockCount'[f] = 1 /\ alertCount'[f] = 1)]_vars

\* C6: a re-scan of a page that has not changed since the previous pass sends
\* no alert of any kind, creates no banner and changes no form's guard state.
C6_RescanIdempotent ==
    [][(IsPass /\ passes >= 1 /\ ~domChanged)
       => /\ sent' = <<>>
          /\ banners' = banners
          /\ processedForms' = processedForms
          /\ listener' = listener
          /\ ctl' = ctl
          /\ hasBanner' = hasBanner]_vars

\* C7: override is one-way: once the user has overridden a form, no later
\* pass, re-scan, dismissal or removal disables its submit controls again or
\* attaches the submit-preventing listener again.
C7_OverrideOneWay ==
    [][\A f \in Forms :
          overridden[f]
          => /\ ~listener'[f]
             /\ ctl'[f] = ctl[f]
             /\ blockCount'[f] = blockCount[f]]_vars

\* a pass has run over an overridden form after its banner was dismissed and
\* removed
C7_Witness ==
    \E f \in Forms :
        /\ overridden[f]
        /\ ~hasBanner[f]
        /\ ~BannerInDom(banners)
        /\ ~domChanged
        /\ ~listener[f]

\* C8: a blocked form leaves the blocked state only through the user's click
\* on the override control: no pass, timer or Dismiss click removes the
\* listener from, or enables a submit control of, a blocked form.
C8_OnlyOverrideUnblocks ==
    [][\A f \in Forms :
          (listener[f] /\ AllDisabled(f) /\ ~overridden[f])
          => \/ listener'[f] /\ (\A c \in Controls : ctl'[f][c].disabled)
             \/ overridden'[f] /\ ~overridden[f] /\ passes' = passes]_vars

\* a form is still blocked after its banner was dismissed and removed and a
\* later pass has run
C8_Witness ==
    \E f \in Forms :
        /\ listener[f] /\ AllDisabled(f) /\ ~overridden[f]
        /\ \E b \in 1..Len(banners) : banners[b].form = f /\ ~banners[b].inDOM
        /\ passes >= 2
        /\ ~domChanged

\* form f is as it was when the page was built: no control touched, no
\* listener, no banner and no alert for it
Unseen(f) ==
    /\ \A c \in Controls : /\ ctl[f][c].disabled = InitiallyDisabled[c]
                           /\ ctl[f][c].originalDisabled = "unset"
    /\ ~listener[f]
    /\ ~hasBanner[f]
    /\ \A b \in 1..Len(banners) : banners[b].form # f
    /\ alertCount[f] = 0
    /\ blockCount[f] = 0

\* C9: a pass in which analyzeForm returns an empty reasons list for a form
\* leaves that form's guard untouched: its controls are not disabled, no
\* listener is attached, no banner is created for it and no alert is sent for
\* it; a form that was never flagged is still unseen.
C9_CleanFormUntouched ==
    [][/\ \A f \in Forms :
             (IsPass /\ f \in clean')
             => /\ ctl'[f] = ctl[f]
                /\ listener'[f] = listener[f]
                /\ hasBanner'[f] = hasBanner[f]
                /\ \A b \in 1..Len(banners') : b > Len(banners) => banners'[b].form # f
                /\ alertCount'[f] = alertCount[f]
                /\ f \notin processedForms'
       /\ \A f \in Forms : f \notin processedForms' => Unseen(f)']_vars

\* the last pass found one form clean and flagged another
C9_Witness ==
    /\ passes >= 1
    /\ \E f \in clean : \E g \in analysed :
          g \in processedForms /\ listener[g] /\ Unseen(f)

\* C10: re-scans are debounced: however many mutation batches add a form
\* within the delay, at most one re-scan timer is pending at any time.
C10_AtMostOnePendingRescan == pendingRescans <= 1

\* the forms in the document
InDom(f) == f <= Len(domForms)

\* the forms the pass of this step has analysed and found suspicious
Flagged == analysed' \ clean'

\* shouldProcessPage() and looksLikeGoogleForm() as a pass that starts now
\* finds them
RelevantNow == ShouldProcessTable[<<page, domForms # <<>>>>]
LooksNow == Looks(page, banners, Tables)

\* C11: a suspicious form inserted after the initial load is analysed by the
\* re-scan that follows (provided the relevance filter holds then), and is
\* then blocked and alerted exactly once.
C11_InsertedFormCaught ==
    [][\A f \in Forms :
          (/\ pendingRescans' = pendingRescans - 1
           /\ loaded /\ f > initialForms /\ InDom(f)
           /\ f \notin processedForms
           /\ RelevantNow)
          => /\ f \in analysed'
             /\ f \notin clean'
                => /\ f \in processedForms'
                   /\ listener'[f]
                   /\ \A c \in Controls : ctl'[f][c].disabled
                   /\ blockCount'[f] = 1
                   /\ alertCount'[f] = 1]_vars

\* the reason field for the action http://203.0.113.5/submit on a page that
\* looks like a Google Form, and on one that does not
TwoReasons ==
    "Form appears to be Google Form but submits to non-Google domain: "
        \o "http://203.0.113.5/submit, Form submits to IP address: http://203.0.113.5/submit"
OneReason == "Form submits to IP address: http://203.0.113.5/submit"

\* the first form in document order the pass of this step has flagged
FirstFlagged == CHOOSE f \in Flagged : \A g \in Flagged : f <= g

\* C12: on the first pass that sees a suspicious form while no banner is in
\* the page, the form becomes blocked, one banner is created (for it), and one
\* alert is sent for it whose reason field is the form's reasons joined in
\* rule order; an IP action on a brand-looking page on another host gives the
\* non-brand reason followed by the IP reason.
C12_FirstSuspiciousForm ==
    [][(IsPass /\ ~BannerInDom(banners) /\ Flagged # {})
       => /\ listener'[FirstFlagged]
          /\ \A c \in Controls : ctl'[FirstFlagged][c].disabled
          /\ blockCount'[FirstFlagged] = 1
          /\ Len(banners') = Len(banners) + 1
          /\ banners'[Len(banners')].form = FirstFlagged
          /\ banners'[Len(banners')].inDOM
          /\ alertCount'[FirstFlagged] = 1
          /\ sent'[1].reason
                = join(FormTable[<<page, formAttr[FirstFlagged], LooksNow>>].analysis.reasons,
                       ", ")
          /\ (formAttr[FirstFlagged] = "http://203.0.113.5/submit"
                => sent'[1].reason = IF page = "plain" THEN OneReason ELSE TwoReasons)]_vars

\* a pass has blocked a form and sent the alert with the two reasons
C12_Witness ==
    /\ passes >= 1
    /\ Len(sent) >= 1
    /\ sent[1].reason = TwoReasons
    /\ Len(banners) = 1
    /\ listener[banners[1].form]
    /\ banners[1].form \in analysed

\* a page served by Google on which every form action and every link target
\* is on a Google domain and matches none of the patterns
LegitimatePage ==
    /\ page = "google"
    /\ \A f \in Forms :
          InDom(f) => formAttr[f] \in {"", "https://docs.google.com/forms/d/e/xyz/formResponse"}
    /\ \A i \in 1..Len(anchors) : anchors[i] = "#top"

\* C14: a legitimate brand page triggers nothing: no form is blocked, no
\* banner is shown and no alert is sent, over any number of passes.
C14_LegitimatePageUntouched ==
    LegitimatePage
    => /\ processedForms = {}
       /\ banners = <<>>
       /\ sent = <<>>
       /\ linkAlerts = 0
       /\ \A f \in Forms :
             /\ ~listener[f]
             /\ alertCount[f] = 0
             /\ blockCount[f] = 0
             /\ \A c \in Controls : ctl[f][c].disabled = InitiallyDisabled[c]

\* two passes have run over a legitimate page with two forms and a link
C14_Witness ==
    /\ LegitimatePage
    /\ passes >= 2
    /\ Len(domForms) >= 2
    /\ \E f \in Forms : InDom(f) /\ formAttr[f] = ""
    /\ anchors # <<>>
    /\ analysed # {}

\* C15: on a pass where the relevance filter passes, the page looks like the
\* brand, no form is found suspicious and the link analyzer has a finding,
\* exactly one alert is sent, with an empty formAction and with the link
\* findings; no submit control or listener changes and no banner is created.
C15_LinkOnlyAlert ==
    [][(/\ IsPass /\ RelevantNow /\ LooksNow
        /\ Flagged = {}
        /\ analyzeSuspiciousLinks(anchors, LooksNow, Tables) # <<>>)
       => /\ Len(sent') = 1
          /\ sent'[1].formAction = ""
          /\ sent'[1].suspiciousLinks = analyzeSuspiciousLinks(anchors, LooksNow, Tables)
          /\ ctl' = ctl
          /\ listener' = listener
          /\ banners' = banners
          /\ hasBanner' = hasBanner]_vars

\* a pass over a page with a form has sent the alert for links alone
C15_Witness ==
    /\ linkAlerts >= 1
    /\ domForms # <<>>
    /\ processedForms = {}
    /\ Len(sent) = 1
    /\ sent[1].formAction = ""
    /\ analysed # {}

\* the one anchor of the page is an http link to an IPv4 literal
OneIpAnchor == anchors = <<"http://198.51.100.9/track">>

IPv4Hosts == {"203.0.113.5"}
PunyHosts == {"xn--ggle-0nda.example"}
PunyTails == {"/xn--p1ai/post", "#xn--sec"}
HostOfPage(pg) == IF pg = "phish" THEN "evil.example" ELSE "docs.google.com"
DirOfPage(pg) == IF pg = "phish" THEN "http://evil.example/forms/"
                 ELSE "https://docs.google.com/forms/d/e/abc/"

StartsWithHttpIPv4(p) ==
    p.kind = "absolute" /\ p.scheme \in {"http://", "https://"} /\ p.host \in IPv4Hosts

ContainsPunycode(p) == p.host \in PunyHosts \/ p.tail \in PunyTails

\* the resolved submission URL of the form a probe describes; empty when the
\* form has no action
WrittenAction(p) ==
    IF p.kind = "empty" THEN ""
    ELSE IF p.kind = "relative" THEN DirOfPage(p.page) \o p.tail
    ELSE ProbeText(p)

\* the reasons the four rules give for a probe, in rule order
ExpectedReasons(p, action) ==
    (IF p.looks /\ action # "" /\ ~isGoogleDomain(action)
     THEN <<"Form appears to be Google Form but submits to non-Google domain: " \o action>>
     ELSE <<>>)
    \o (IF StartsWithHttpIPv4(p) THEN <<"Form submits to IP address: " \o action>> ELSE <<>>)
    \o (IF p.kind = "mailto" THEN <<"Form uses mailto action: " \o action>> ELSE <<>>)
    \o (IF ContainsPunycode(p) THEN <<"Form action contains punycode: " \o action>>
        ELSE <<>>)

\* C13: analyzeForm accumulates its four rules independently and in order:
\* the non-brand reason iff the page looks like the brand, the action is not
\* empty and isGoogleDomain(action) is false; the IP reason iff the action
\* starts with http(s):// and an IPv4 literal; the mailto reason iff it starts
\* with mailto:; the punycode reason iff it contains xn--.  A form with an
\* empty action has no reasons, and isSuspicious iff there is a reason.
C13_FourRulesInOrder ==
    (probe.fn = "analyzeForm" /\ out.done)
    => /\ out.value.reasons = ExpectedReasons(probe, WrittenAction(probe))
       /\ out.value.isSuspicious = (ExpectedReasons(probe, WrittenAction(probe)) # <<>>)
       /\ (probe.kind = "empty" => out.value.reasons = <<>>)

\* the URL an anchor's href denotes, and its host, by the way it is written
WrittenTarget(p) ==
    IF p.kind = "fragment" THEN PageOf(p.page).url \o p.tail ELSE ProbeText(p)

TargetHost(p) ==
    IF p.kind = "absolute" THEN p.host
    ELSE IF p.kind = "fragment" THEN HostOfPage(p.page) ELSE ""

NonBrandReason == "Non-Google link on Google-looking form"

\* the findings the three link rules give for a probe: the non-brand rule
\* leaves out in-page fragments and javascript: targets
ExpectedFindings(p, target) ==
    (IF StartsWithHttpIPv4(p) THEN <<[url |-> target, reason |-> "IP address link"]>>
     ELSE <<>>)
    \o (IF ContainsPunycode(p) THEN <<[url |-> target, reason |-> "Punycode link"]>>
        ELSE <<>>)
    \o (IF /\ p.looks
           /\ ~(\E d \in {"google.com", "docs.google.com", "forms.gle", "googleforms.com"} :
                   includes(TargetHost(p), d))
           /\ p.kind \notin {"fragment", "javascript"}
        THEN <<[url |-> target, reason |-> NonBrandReason]>>
        ELSE <<>>)

\* C17: link findings are per violated rule and not deduplicated: an anchor
\* contributes one finding for each of the rules it violates (IP-literal
\* link, punycode link, non-brand link on a brand-looking page), and none
\* when it violates none.
C17_OneFindingPerRule ==
    (probe.fn = "links" /\ out.done)
    => out.value = ExpectedFindings(probe, WrittenTarget(probe))

\* C18: on a brand-looking page the non-brand-link rule never flags an anchor
\* whose href, as written in the page, begins with # or with javascript:,
\* whatever the page's own host is.
C18_FragmentsNotFlagged ==
    (probe.fn = "links" /\ out.done /\ probe.looks
        /\ probe.kind \in {"fragment", "javascript"})
    => \A i \in 1..Len(out.value) : out.value[i].reason # NonBrandReason

\* the brand's domains, as the allowlist is documented
AllowedDomains == {"google.com", "docs.google.com", "forms.gle", "googleforms.com"}

\* the hostname of the URL a probe denotes, by the way the URL is written
WrittenHost(p) == IF p.kind = "absolute" THEN p.host ELSE ""

\* C19: isGoogleDomain fails closed: for a string that is not an absolute URL
\* (empty, relative, garbage) it returns false.
C19_FailsClosed ==
    (probe.fn = "isGoogleDomain" /\ probe.kind = "raw" /\ out.done) => out.value = FALSE

\* the call has returned for a relative string that holds a brand domain
C19_Witness ==
    /\ probe.fn = "isGoogleDomain" /\ probe.kind = "raw" /\ out.done
    /\ includes(probe.tail, "docs.google.com")

\* C20: for a parseable URL isGoogleDomain returns true iff the lower-cased
\* hostname contains an entry of the allowlist; scheme, userinfo, port, path,
\* query and fragment do not count.
C20_HostnameContainsAllowed ==
    (probe.fn = "isGoogleDomain" /\ probe.kind \in {"absolute", "mailto"} /\ out.done)
    => out.value = (\E d \in AllowedDomains : includes(toLowerCase(WrittenHost(probe)), d))

\* the call has returned for a URL on another host with brand domains in its
\* userinfo and path
C20_Witness ==
    /\ probe.fn = "isGoogleDomain" /\ probe.kind = "absolute" /\ out.done
    /\ probe.host = "evil.example"
    /\ probe.user = "docs.google.com@"
    /\ probe.tail = "/google.com/forms"

\* the parts of a document that carry the brand or a form-related word
BrandOrFormPaths == {"/forms/order", "/Forms/x", "/search?q=google"}
BrandHosts == {"docs.google.com"}
BrandFormTitles == {"Google Form Login", "GOOGLE FORMS"}
BrandFormBodies == {"Sign in to this Google Form"}
BrandAlts == {{"Google logo"}, {"google logo"}}
BrandSrcs == {{"/img/google.png"}, {"/img/Google.png"}}
BrandClasses == {{"hdr google-logo"}, {"Google-header"}}

\* the three conditions the relevance filter is said to accept
FilterSignal ==
    \/ probe.host \in BrandHosts
    \/ probe.path \in BrandOrFormPaths
    \/ probe.title \in BrandFormTitles
    \/ probe.alts \in BrandAlts

\* C21 as stated: shouldProcessPage returns true only if the page has a form
\* and its URL contains a brand- or form-related substring, its title contains
\* the brand+'form' phrase, or an element carries a brand-name alt hint.
C21_OnlyBrandOrFormPages ==
    (probe.fn = "shouldProcessPage" /\ out.done /\ out.value)
    => (probe.hasForm /\ FilterSignal)

\* C21 as amended: the same, with the substring 'test_pages' in the URL as a
\* fourth accepted condition.
C21_OnlyRelevantPages ==
    (probe.fn = "shouldProcessPage" /\ out.done /\ out.value)
    => (probe.hasForm /\ (FilterSignal \/ probe.path = "/test_pages/phishing_form.html"))

\* the filter has accepted a page for the sake of test_pages alone
C21_Witness ==
    /\ probe.fn = "shouldProcessPage"
    /\ out.done
    /\ out.value
    /\ probe.hasForm
    /\ probe.path = "/test_pages/phishing_form.html"
    /\ ~FilterSignal

\* C22: looksLikeGoogleForm is true iff the title or the body text contains
\* 'google form', or some element has an alt, a src or a class containing the
\* brand token, each matched without regard to case.
C22_AnySignalAnyCase ==
    (probe.fn = "looksLikeGoogleForm" /\ out.done)
    => (out.value <=> \/ probe.title \in BrandFormTitles
                      \/ probe.body \in BrandFormBodies
                      \/ probe.alts \in BrandAlts
                      \/ probe.srcs \in BrandSrcs
                      \/ probe.classes \in BrandClasses)

\* a sequence in the opposite order
RECURSIVE Reverse(_)
Reverse(list) == IF list = <<>> THEN <<>> ELSE Append(Reverse(Tail(list)), Head(list))

\* how often x occurs in a sequence
Occurrences(list, x) == Cardinality({i \in 1..Len(list) : list[i] = x})

\* two sequences hold the same elements the same number of times
SameMultiset(a, b) ==
    /\ Len(a) = Len(b)
    /\ \A i \in 1..Len(a) : Occurrences(a, a[i]) = Occurrences(b, a[i])

\* the forms a pass over the forms in the opposite order finds suspicious
FlaggedInReverse ==
    LET r == PassOver(Reverse(domForms), OrderTables) IN r.analysed \ r.clean

\* C23: the detectors do not depend on order: the link analyzer returns the
\* same multiset of findings for the anchors in the opposite order, and the
\* pass finds the same forms suspicious when it visits them in the opposite
\* order.
C23_OrderIndependent ==
    [][(OrderedPass /\ RelevantNow)
       => /\ SameMultiset(
                 analyzeSuspiciousLinks(anchors, Looks(page, banners, OrderTables), OrderTables),
                 analyzeSuspiciousLinks(Reverse(anchors), Looks(page, banners, OrderTables),
                                        OrderTables))
          /\ Flagged = FlaggedInReverse]_vars

\* the smaller of two numbers
Least(a, b) == IF a <= b THEN a ELSE b

\* s is the beginning of t
IsPrefix(s, t) == Len(s) <= Len(t) /\ SubSeq(t, 1, Len(s)) = s

\* C24: every alert record handed over keeps the caps: reason at most 500
\* characters, formAction and pageUrl at most 200, at most 10 links, which
\* are the first 10 findings in finding order, each with a url of at most 200
\* and a reason of at most 100 characters.
C24_AlertWithinCaps ==
    (probe.fn = "sendAlert" /\ out.done)
    => \A m \in 1..Len(out.value) :
          LET msg == out.value[m]
          IN  /\ Len(msg.reason) <= 500
              /\ Len(msg.formAction) <= 200
              /\ Len(msg.pageUrl) <= 200
              /\ Len(msg.suspiciousLinks) = Least(probe.links, 10)
              /\ \A i \in 1..Len(msg.suspiciousLinks) :
                    /\ Len(msg.suspiciousLinks[i].url) <= 200
                    /\ Len(msg.suspiciousLinks[i].reason) <= 100
                    /\ IsPrefix(msg.suspiciousLinks[i].url, AlertLinks(probe)[i].url)
                    /\ IsPrefix(msg.suspiciousLinks[i].reason, AlertLinks(probe)[i].reason)

\* an alert whose every part was over its cap has been handed over
C24_Witness ==
    /\ probe.fn = "sendAlert"
    /\ out.done
    /\ Len(out.value) = 1
    /\ probe.reasons * probe.reasonLen > 500
    /\ probe.actionLen > 200
    /\ probe.pageLen > 200
    /\ probe.links > 10
    /\ probe.urlLen > 200
    /\ probe.linkReasonLen > 100
    /\ Len(out.value[1].reason) = 500
    /\ Len(out.value[1].suspiciousLinks) = 10
    /\ Len(out.value[1].suspiciousLinks[10].url) = 200

\* C25: a failed alert hand-off never interrupts detection: with sendMessage
\* throwing, reporting lastError or missing, a pass still analyses every form
\* it has not processed, every form it finds suspicious is blocked and marked
\* processed, and no form is alerted more than once, in that pass or later.
C25_FailedHandOffHarmless ==
    [][(IsPass /\ channel \in FailingChannels /\ RelevantNow)
       => \A f \in Forms :
             /\ alertCount'[f] <= 1
             /\ f \in processedForms => alertCount'[f] = alertCount[f]
             /\ (InDom(f) /\ f \notin processedForms)
                => /\ f \in analysed'
                   /\ f \notin clean'
                      => /\ f \in processedForms'
                         /\ listener'[f]
                         /\ \A c \in Controls : ctl'[f][c].disabled]_vars

\* C26: the override control is used at most once: the click on it leaves it
\* disabled and relabeled, it stays so from then on, and from then on the
\* controls and the listener of its form do not change.
C26_OverrideUsedOnce ==
    [][\A b \in 1..Len(banners) :
          /\ (~overridden[banners[b].form] /\ overridden'[banners[b].form])
             => /\ banners'[b].ignoreDisabled
                /\ banners'[b].ignoreLabel = EnabledLabel
          /\ banners[b].ignoreDisabled
             => /\ banners'[b].ignoreDisabled
                /\ banners'[b].ignoreLabel = EnabledLabel
                /\ ctl'[banners[b].form] = ctl[banners[b].form]
                /\ listener'[banners[b].form] = listener[banners[b].form]]_vars

\* the override of a banner was used, another form was added and a re-scan
\* has run since
C26_Witness ==
    \E b \in 1..Len(banners) :
        /\ banners[b].ignoreDisabled
        /\ banners[b].inDOM
        /\ overridden[banners[b].form]
        /\ passes >= 2
        /\ ~domChanged
        /\ Len(domForms) > initialForms

\* C27: while a form is blocked every control that can submit it is disabled:
\* those the selector matches, and also a button without a type attribute and
\* an image input.
C27_EverySubmitControlDisabled ==
    \A f \in Forms :
        listener[f] => /\ \A c \in Controls : ctl[f][c].disabled
                       /\ \A c \in OtherSubmitControls : otherCtl[f][c]

\* C28: the alert for links alone is never sent by a pass that runs while the
\* page holds a form flagged suspicious by an earlier pass.
C28_NoLinkAlertBesideFlaggedForm ==
    [][(IsPass /\ \E f \in processedForms : InDom(f))
       => linkAlerts' = linkAlerts]_vars

\* C29: a pass that finds the relevance filter false (the page has no form,
\* or nothing on it names the brand or forms) has no effect: no form is
\* analysed, no control, listener or banner changes, no form is marked
\* processed and no alert is sent, whatever links the page holds.
C29_IrrelevantPageUntouched ==
    [][(IsPass /\ (domForms = <<>> \/ page = "other"))
       => /\ analysed' = {}
          /\ sent' = <<>>
          /\ ctl' = ctl
          /\ listener' = listener
          /\ banners' = banners
          /\ hasBanner' = hasBanner
          /\ processedForms' = processedForms
          /\ alertCount' = alertCount
          /\ linkAlerts' = linkAlerts
          /\ blockCount' = blockCount]_vars

\* a pass has run over a brand-looking page with an IP link and no form
C29_Witness ==
    /\ page = "phish"
    /\ domForms = <<>>
    /\ anchors = <<"http://198.51.100.9/track">>
    /\ loaded
    /\ passes >= 1
    /\ sent = <<>>

AlertArrives == worker'.nextSeq = worker.nextSeq + 1

\* the handler of some alert writes the alert into the storage in this step
AlertWritten == worker'.written # worker.written

\* C31: a PHISHING_ALERT that arrives while settings.enabled is false changes
\* nothing: no alert is stored, the badge stays and no notification is shown,
\* then or later; an alert that arrives while the extension is enabled is
\* taken up and stored, and with notificationsEnabled false it is stored
\* without a notification.
C31_DisabledIgnoresAlerts ==
    [][/\ (AlertArrives /\ ~worker.settings.enabled) =>
             /\ UNCHANGED <<worker.stored, worker.badge, worker.notifications,
                            worker.inflight, worker.written, worker.settings>>
       /\ (AlertArrives /\ worker.settings.enabled) =>
             /\ worker'.inflight # {}
             /\ UNCHANGED <<worker.stored, worker.badge, worker.notifications>>
       /\ AlertWritten =>
             /\ worker.settings.enabled
             /\ worker'.stored[1].seq \in worker'.written \ worker.written
             /\ worker'.notifications = IF worker.settings.notificationsEnabled
                                         THEN worker.notifications + 1
                                         ELSE worker.notifications]_vars

\* the first alert arrived while the extension was disabled and left nothing
\* behind; the second arrived with notifications off and is stored unseen
C31_Witness ==
    /\ worker.settings = [enabled |-> TRUE, notificationsEnabled |-> FALSE]
    /\ worker.inflight = {}
    /\ worker.nextSeq = StoredCap + 3
    /\ worker.written \ (1..StoredCap) = {StoredCap + 2}
    /\ worker.stored[1].seq = StoredCap + 2
    /\ worker.notifications = 0

\* the alerts of a list stand in the order of their arrival, the latest first
MostRecentFirst(list) == \A i \in 1..(Len(list) - 1) : list[i].seq > list[i + 1].seq

\* C32: with storeAlert, deleteAlert and clearAllAlerts executed one at a time
\* the stored list never has more than 50 entries and is ordered most recent
\* first; storing an alert puts it in front of the others, and storing into a
\* full list drops the oldest entry and nothing else.
C32_CappedMostRecentFirst ==
    /\ [](Len(worker.stored) <= 50 /\ MostRecentFirst(worker.stored))
    /\ [][AlertWritten =>
             /\ worker'.stored[1].seq \in worker'.written \ worker.written
             /\ Tail(worker'.stored) = slice(worker.stored, 0, 49)
             /\ worker'.removed \ worker.removed =
                   IF Len(worker.stored) = 50 THEN {worker.stored[50].seq} ELSE {}]_vars

\* an alert was stored into a full list and the oldest one is gone
C32_Witness ==
    /\ Len(worker.stored) = 50
    /\ worker.stored[1].seq = StoredCap + 1
    /\ worker.stored[50].seq = 2
    /\ worker.removed = {1}
    /\ worker.inflight = {}

\* the arrival numbers of the alerts in a list
SeqsOf(list) == {list[i].seq : i \in 1..Len(list)}

\* C33: once all handlers have finished, every alert that was stored and was
\* neither evicted by the cap of 50 nor removed by a delete or a clear is in
\* the storage, however the handlers interleave.
C33_NoAcceptedAlertLost ==
    worker.inflight = {} => (worker.written \ worker.removed) \subseteq SeqsOf(worker.stored)

\* a list without its entry at position i
Without(list, i) == SubSeq(list, 1, i - 1) \o SubSeq(list, i + 1, Len(list))

\* C37: the ids of the stored alerts are pairwise distinct, also when two
\* alerts are stored within one millisecond, and deleteAlert(id) removes
\* exactly one alert and leaves the others and their order unchanged.
C37_DistinctIdsDeleteOne ==
    /\ [](\A i, j \in 1..Len(worker.stored) : i # j => worker.stored[i].id # worker.stored[j].id)
    /\ [][\A h \in worker.inflight \ worker'.inflight :
             h.op = "delete" =>
                \E i \in 1..Len(worker.stored) : /\ worker.stored[i].id = h.target
                                          /\ worker'.stored = Without(worker.stored, i)]_vars

\* C36: a document that has a form and that looksLikeGoogleForm finds
\* brand-looking, by whichever signal, passes shouldProcessPage.
C36_BrandLookingPageProcessed ==
    (probe.fn = "looksLikeGoogleForm" /\ out.done /\ probe.hasForm /\ out.value)
    => shouldProcessPage(DocOf(probe), probe.hasForm)

\* C34: only forms found suspicious are marked processed, and a form that an
\* earlier pass found clean is analysed again by every later pass (that gets
\* past the relevance filter); when it has become suspicious by then, that
\* pass blocks it and sends its alert.
C34_CleanFormAnalysedAgain ==
    /\ [](\A f \in processedForms : alertCount[f] > 0)
    /\ [][\A f \in Forms :
             (/\ IsPass
              /\ loaded /\ f <= initialForms
              /\ f \notin processedForms
              /\ RelevantNow)
             => /\ f \in analysed'
                /\ f \notin clean'
                   => /\ f \in processedForms'
                      /\ listener'[f]
                      /\ \A c \in Controls : ctl'[f][c].disabled
                      /\ alertCount'[f] = alertCount[f] + 1]_vars

\* the step is a click on Dismiss of banner b, or the removal that follows it
DismissStep(b) == banners'[b].removals # banners[b].removals

\* a click on Dismiss leaves the banner in the document until its timer
\* fires, and neither the click nor the removal changes a submit control, a
\* submit listener or processedForms
DismissLeavesGuard ==
    \A b \in 1..Len(banners) :
        /\ DismissStep(b) => UNCHANGED <<ctl, listener, processedForms, overridden>>
        /\ banners'[b].removals > banners[b].removals => banners'[b].inDOM
        /\ (banners'[b].removals < banners[b].removals /\ banners[b].inDOM)
              => ~banners'[b].inDOM

\* no banner is created for form f in this step
NoNewBannerFor(f) == \A i \in (Len(banners) + 1)..Len(banners') : banners'[i].form # f

\* C35: Dismiss leaves the guard untouched, and a form that is blocked when
\* its banner is dismissed never becomes overridden after the click on
\* Dismiss.
C35_NoOverrideAfterDismissClick ==
    [][/\ DismissLeavesGuard
       /\ \A b \in 1..Len(banners) :
             ((banners[b].removals > 0 \/ ~banners[b].inDOM) /\ ~overridden[banners[b].form])
             => /\ ~overridden'[banners[b].form]
                /\ NoNewBannerFor(banners[b].form)]_vars

\* C35 (amended): Dismiss leaves the guard untouched, and a form that is
\* blocked when its dismissed banner is removed from the document never
\* becomes overridden afterwards, and no new banner is created for it.
C35_NoOverrideAfterRemoval ==
    [][/\ DismissLeavesGuard
       /\ \A b \in 1..Len(banners) :
             (~banners[b].inDOM /\ ~overridden[banners[b].form])
             => /\ ~overridden'[banners[b].form]
                /\ listener'[banners[b].form] = listener[banners[b].form]
                /\ NoNewBannerFor(banners[b].form)]_vars

\* the banner of a blocked form was dismissed and removed, a re-scan has run
\* since, and the form is still blocked
C35_Witness ==
    \E b \in 1..Len(banners) :
        /\ ~banners[b].inDOM
        /\ banners[b].removals = 0
        /\ listener[banners[b].form]
        /\ AllDisabled(banners[b].form)
        /\ ~overridden[banners[b].form]
        /\ banners[b].form \in processedForms
        /\ passes >= 2
        /\ ~domChanged
====
